---- MODULE Spec2Model ----
(***************************************************************************)
(* Quiz assessment and grading subsystem of smartEduBackend:               *)
(* question bank, quiz composer, attempt tracker and grading engine        *)
(* (app/routes/quiz.py) and the student blueprint's grading handler        *)
(* (app/routes/studentquiz.py), over the shared document store.            *)
(*                                                                         *)
(* Text values are sequences of one-character strings, so that str.strip() *)
(* and str.lower() are computed and not assumed.  A Python value that may  *)
(* be None is a set: {} is None and {v} is the value v.  A document _id is *)
(* the position of the document in its collection (documents of these     *)
(* collections are never deleted).  datetime values are hours.             *)
(***************************************************************************)
EXTENDS Integers, Sequences, FiniteSets, TLC

VARIABLES question_bank, quizzes, quiz_results, quiz_attempts, now,
          response, inflight, origin, bank_origin, result_request

vars == <<question_bank, quizzes, quiz_results, quiz_attempts, now,
          response, inflight, origin, bank_origin, result_request>>

(***************************************************************************)
(* Bounds of the model.                                                    *)
(***************************************************************************)
MaxBank == 1
MaxQuizzes == 2
MaxQuestions == 2
MaxResults == 2
MaxAttempts == 2
MaxTime == 36
MaxInflight == 2
MaxStrLen == 2
MaxPoints == 9
MaxBankSize == 3

(***************************************************************************)
(* Program constants.                                                      *)
(***************************************************************************)
AttemptTTL == 24
TickHours == 12

None == {}
Some(v) == {v}
TheValue(o) == CHOOSE v \in o : TRUE

(***************************************************************************)
(* Text.                                                                   *)
(***************************************************************************)
Chars == {" ", "a", "A"}

RECURSIVE StrsUpTo(_)
StrsUpTo(n) ==
  IF n = 0 THEN {<<>>}
  ELSE LET shorter == StrsUpTo(n - 1)
       IN shorter \cup {Append(s, c) : s \in {t \in shorter : Len(t) = n - 1}, c \in Chars}

LowerChar(c) == IF c = "A" THEN "a" ELSE c

Lower(s) == [i \in 1..Len(s) |-> LowerChar(s[i])]

RECURSIVE LStrip(_)
LStrip(s) == IF s # <<>> /\ Head(s) = " " THEN LStrip(Tail(s)) ELSE s

RECURSIVE RStrip(_)
RStrip(s) ==
  IF s # <<>> /\ s[Len(s)] = " " THEN RStrip(SubSeq(s, 1, Len(s) - 1)) ELSE s

Strip(s) == LStrip(RStrip(s))

StrOfNat(i) ==
  CASE i = 0 -> "0" [] i = 1 -> "1" [] i = 2 -> "2" [] i = 3 -> "3"
    [] i = 4 -> "4" [] i = 5 -> "5" [] i = 6 -> "6" [] i = 7 -> "7"
    [] i = 8 -> "8" [] OTHER -> "9"

(***************************************************************************)
(* Grading: correctness of one answer.                                     *)
(***************************************************************************)
\* quiz.py submit_quiz: found is FALSE when the submission has no entry for
\* the question; answer is the entry's 'answer' ('' when the key is absent).
IsCorrect(question_type, found, answer, correct_answer) ==
  IF ~found THEN FALSE
  ELSE LET student_response == Strip(answer)
       IN CASE question_type = "multiple_choice" ->
                 student_response = correct_answer
            [] question_type = "true_false" ->
                 Lower(student_response) = Lower(correct_answer)
            [] OTHER ->
                 Lower(Strip(student_response)) = Lower(Strip(correct_answer))

\* studentquiz.py submit_quiz_attempt: one comparison for every type.
IsCorrectAttempt(student_answer, correct_answer) ==
  Strip(student_answer) = Strip(correct_answer)

(***************************************************************************)
(* Grading: percentage and letter grade.  A percentage is kept in          *)
(* hundredths (9000 is 90.0), which is what round(percentage, 2) stores.   *)
(***************************************************************************)
\* round(n / d, 0) for d > 0, ties to even (Python's round)
RoundDiv(n, d) ==
  LET q == n \div d
      r == n % d
  IN IF 2 * r < d THEN q
     ELSE IF 2 * r > d THEN q + 1
     ELSE IF q % 2 = 0 THEN q ELSE q + 1

\* RoundedPercentage cutting the digits after the second decimal off
TruncatedPercentage(total_score, max_score) ==
  IF max_score > 0 THEN (total_score * 10000) \div max_score ELSE 0

\* round(percentage, 2) in hundredths
RoundedPercentage(total_score, max_score) ==
  IF max_score > 0 THEN RoundDiv(total_score * 10000, max_score) ELSE 0

\* the if/elif chain on the unrounded percentage total_score / max_score * 100
Grade(total_score, max_score) ==
  LET num == IF max_score > 0 THEN total_score * 100 ELSE 0
      den == IF max_score > 0 THEN max_score ELSE 1
  IN IF num >= 90 * den THEN "A"
     ELSE IF num >= 80 * den THEN "B"
     ELSE IF num >= 70 * den THEN "C"
     ELSE IF num >= 60 * den THEN "D"
     ELSE "F"

(***************************************************************************)
(* Documents and requests.  A request body or a stored document is a       *)
(* function from its keys to their values; a key the JSON does not carry   *)
(* is not in the DOMAIN.  Of each document the fields that a handler       *)
(* reads, compares or computes are kept; the pass-through fields           *)
(* (difficulty, time_estimate, tags, description, time_limit, the           *)
(* created_at/updated_at stamps of questions and quizzes) are left out.    *)
(***************************************************************************)
Has(d, k) == k \in DOMAIN d

\* dict.get(k, default)
Get(d, k, default) == IF Has(d, k) THEN d[k] ELSE default

\* the keys whose values are text (character sequences) and the keys whose
\* values are identifiers (atomic strings), for validate_required_fields
TextKeys == {"question_text", "correct_answer", "title", "explanation", "topic"}
IdentKeys == {"student_id", "student_email", "question_type", "subject"}

\* quiz.py validate_required_fields: the missing or blank required fields
validate_required_fields(data, required_fields) ==
  {f \in required_fields :
      \/ ~Has(data, f)
      \/ (f \in TextKeys /\ Strip(data[f]) = <<>>)
      \/ (f \in IdentKeys /\ data[f] = "")}

\* quiz.py get_current_user_id: authentication is stubbed out
get_current_user_id == "dummy_user_id"

RECURSIVE SumSeq(_)
SumSeq(s) == IF s = <<>> THEN 0 ELSE Head(s) + SumSeq(Tail(s))

SeqToSet(s) == {s[i] : i \in 1..Len(s)}

\* the positions of a collection whose document satisfies Match, in
\* natural (insertion) order; find_one returns the first
FirstIndex(S) == IF S = {} THEN 0 ELSE CHOOSE i \in S : \A j \in S : i <= j

\* who sent a request: the teacher and the school (tenant) of the session it
\* was sent in.  No handler reads it: get_current_user_id takes nothing from
\* the request, and no quiz document has a school field.  origin[i] is the
\* sender of the request that stored quizzes[i], bank_origin[i] the sender
\* of the request that stored question_bank[i], result_request[i] the handler
\* and the body of the request that stored quiz_results[i]
DefaultSender == [teacher |-> "t1", school |-> "sch1"]

Sender(data) == Get(data, "sender", DefaultSender)

(***************************************************************************)
(* Question bank: add_to_question_bank.                                    *)
(***************************************************************************)
BankRequired ==
  {"question_text", "question_type", "subject", "topic", "correct_answer", "points"}

\* BankDuplicate comparing the question_text as it was sent
BankDuplicateUnstripped(bank, data) ==
  \E i \in 1..Len(bank) :
     /\ bank[i].question_text = data.question_text
     /\ bank[i].subject = data.subject
     /\ bank[i].created_by = get_current_user_id

BankDuplicate(bank, data) ==
  \E i \in 1..Len(bank) :
     /\ bank[i].question_text = Strip(data.question_text)
     /\ bank[i].subject = data.subject
     /\ bank[i].created_by = get_current_user_id

BankDoc(data) ==
  LET base == [question_text |-> Strip(data.question_text),
               question_type |-> data.question_type,
               subject |-> data.subject,
               topic |-> Strip(data.topic),
               correct_answer |-> data.correct_answer,
               explanation |-> Strip(Get(data, "explanation", <<>>)),
               points |-> data.points,
               created_by |-> get_current_user_id]
  IN IF data.question_type = "multiple_choice"
     THEN base @@ [options |-> data.options]
     ELSE base

\* AddToQuestionBankOutcome accepting a single option
AddToQuestionBankOutcomeOneOption(bank, data) ==
  IF validate_required_fields(data, BankRequired) # {}
  THEN [code |-> 400, doc |-> None, error |-> "Missing required fields"]
  ELSE IF BankDuplicate(bank, data)
  THEN [code |-> 409, doc |-> None, error |-> "This question already exists"]
  ELSE IF data.question_type = "multiple_choice"
          /\ (~Has(data, "options") \/ Len(data.options) < 1)
  THEN [code |-> 400, doc |-> None, error |-> "Multiple choice questions require at least 2 options"]
  ELSE [code |-> 201, doc |-> Some(BankDoc(data)), error |-> ""]

\* the outcome of add_to_question_bank: status code and the document to
\* insert (None when nothing is inserted)
AddToQuestionBankOutcome(bank, data) ==
  IF validate_required_fields(data, BankRequired) # {}
  THEN [code |-> 400, doc |-> None, error |-> "Missing required fields"]
  ELSE IF BankDuplicate(bank, data)
  THEN [code |-> 409, doc |-> None, error |-> "This question already exists"]
  ELSE IF data.question_type = "multiple_choice"
          /\ (~Has(data, "options") \/ Len(data.options) < 2)
  THEN [code |-> 400, doc |-> None, error |-> "Multiple choice questions require at least 2 options"]
  ELSE [code |-> 201, doc |-> Some(BankDoc(data)), error |-> ""]

add_to_question_bank(data) ==
  LET out == AddToQuestionBankOutcome(question_bank, data)
  IN /\ question_bank' = IF out.doc = None THEN question_bank
                         ELSE Append(question_bank, TheValue(out.doc))
     /\ response' = [op |-> "add_to_question_bank", code |-> out.code,
                     error |-> out.error]
     /\ bank_origin' = IF out.doc = None THEN bank_origin
                       ELSE Append(bank_origin, Sender(data))
     /\ UNCHANGED <<quizzes, quiz_results, quiz_attempts, now, inflight, origin,
                 result_request>>

(***************************************************************************)
(* Quiz composer: create_quiz, publish_quiz, unpublish_quiz.               *)
(***************************************************************************)
QuizRequired == {"title", "subject", "questions"}

QuizDuplicate(qs, data) ==
  \E i \in 1..Len(qs) :
     /\ qs[i].title = Strip(data.title)
     /\ qs[i].teacher_id = get_current_user_id

\* the question_bank_id values of the request, one per referencing entry
QuestionBankIds(entries) ==
  LET refs == SelectSeq(entries, LAMBDA e : Has(e, "question_bank_id"))
  IN [i \in 1..Len(refs) |-> refs[i].question_bank_id]

\* count_documents({'_id': {'$in': ids}, 'created_by': user_id})
CountOwned(bank, ids) ==
  Cardinality({i \in 1..Len(bank) :
                 i \in SeqToSet(ids) /\ bank[i].created_by = get_current_user_id})

\* find_one({'_id': id, 'created_by': user_id}) on the question bank
FindOwned(bank, id) ==
  IF id \in 1..Len(bank) /\ bank[id].created_by = get_current_user_id
  THEN Some(bank[id]) ELSE None

\* the keys an inline entry is indexed with; a missing one raises KeyError
InlineRequired == {"question_text", "question_type", "correct_answer", "points"}

EntryRaises(e) ==
  ~Has(e, "question_bank_id") /\ InlineRequired \ DOMAIN e # {}

\* the embedded question built from the entry at 1-based position index;
\* None when a referenced bank question is not found (the loop continues)
EmbeddedQuestion(bank, data, e, index) ==
  IF Has(e, "question_bank_id")
  THEN LET found == FindOwned(bank, e.question_bank_id)
       IN IF found = None THEN None
          ELSE LET qb == TheValue(found)
               IN Some([question_bank_id |-> e.question_bank_id,
                        question_text |-> qb.question_text,
                        question_type |-> qb.question_type,
                        options |-> IF Has(qb, "options") THEN Some(qb.options) ELSE None,
                        correct_answer |-> qb.correct_answer,
                        explanation |-> Get(qb, "explanation", <<>>),
                        points |-> qb.points,
                        subject |-> qb.subject,
                        topic |-> qb.topic,
                        order_index |-> index])
  ELSE LET base == [question_text |-> Strip(e.question_text),
                    question_type |-> e.question_type,
                    correct_answer |-> e.correct_answer,
                    explanation |-> Strip(Get(e, "explanation", <<>>)),
                    points |-> e.points,
                    subject |-> data.subject,
                    topic |-> Strip(Get(e, "topic", <<"a">>)),
                    order_index |-> index]
       IN IF e.question_type = "multiple_choice" /\ Has(e, "options")
          THEN Some(base @@ [options |-> Some(e.options)])
          ELSE Some(base)

\* BuildQuestions with total_points summed over the inline entries only
RECURSIVE BuildQuestionsInlineTotal(_, _, _, _)
BuildQuestionsInlineTotal(bank, data, index, acc) ==
  IF index > Len(data.questions) THEN acc
  ELSE LET e == data.questions[index]
           q == EmbeddedQuestion(bank, data, e, index)
       IN IF q = None
          THEN BuildQuestionsInlineTotal(bank, data, index + 1, acc)
          ELSE BuildQuestionsInlineTotal(bank, data, index + 1,
                 [questions |-> Append(acc.questions, TheValue(q)),
                  total_points |-> acc.total_points
                                     + (IF Has(e, "points") THEN e.points ELSE 0)])

\* the loop of create_quiz over data['questions'] from position index on:
\* the questions appended and the running total_points
RECURSIVE BuildQuestions(_, _, _, _)
BuildQuestions(bank, data, index, acc) ==
  IF index > Len(data.questions) THEN acc
  ELSE LET q == EmbeddedQuestion(bank, data, data.questions[index], index)
       IN IF q = None
          THEN BuildQuestions(bank, data, index + 1, acc)
          ELSE BuildQuestions(bank, data, index + 1,
                 [questions |-> Append(acc.questions, TheValue(q)),
                  total_points |-> acc.total_points + TheValue(q).points])

QuizDoc(bank, data) ==
  LET built == BuildQuestions(bank, data, 1, [questions |-> <<>>, total_points |-> 0])
  IN [title |-> Strip(data.title),
      subject |-> data.subject,
      teacher_id |-> get_current_user_id,
      status |-> Get(data, "status", "draft"),
      total_points |-> built.total_points,
      questions |-> built.questions]

\* CreateQuizOutcome inserting the quiz before the check of its references
CreateQuizOutcomeInsertFirst(bank, qs, data) ==
  IF validate_required_fields(data, QuizRequired) # {}
  THEN [code |-> 400, doc |-> None]
  ELSE IF QuizDuplicate(qs, data)
  THEN [code |-> 409, doc |-> None]
  ELSE IF QuestionBankIds(data.questions) # <<>>
          /\ CountOwned(bank, QuestionBankIds(data.questions))
               # Len(QuestionBankIds(data.questions))
  THEN [code |-> 400,
        doc |-> Some([title |-> Strip(data.title), subject |-> data.subject,
                      teacher_id |-> get_current_user_id,
                      status |-> Get(data, "status", "draft"),
                      total_points |-> 0, questions |-> <<>>])]
  ELSE IF \E i \in 1..Len(data.questions) : EntryRaises(data.questions[i])
  THEN [code |-> 500, doc |-> None]
  ELSE [code |-> 201, doc |-> Some(QuizDoc(bank, data))]

\* the outcome of create_quiz: status code and the quiz to insert
CreateQuizOutcome(bank, qs, data) ==
  IF validate_required_fields(data, QuizRequired) # {}
  THEN [code |-> 400, doc |-> None]
  ELSE IF QuizDuplicate(qs, data)
  THEN [code |-> 409, doc |-> None]
  ELSE IF QuestionBankIds(data.questions) # <<>>
          /\ CountOwned(bank, QuestionBankIds(data.questions))
               # Len(QuestionBankIds(data.questions))
  THEN [code |-> 400, doc |-> None]
  ELSE IF \E i \in 1..Len(data.questions) : EntryRaises(data.questions[i])
  THEN [code |-> 500, doc |-> None]
  ELSE [code |-> 201, doc |-> Some(QuizDoc(bank, data))]

create_quiz(data) ==
  LET out == CreateQuizOutcome(question_bank, quizzes, data)
  IN /\ quizzes' = IF out.doc = None THEN quizzes
                   ELSE Append(quizzes, TheValue(out.doc))
     /\ response' = [op |-> "create_quiz", code |-> out.code]
     /\ origin' = IF out.doc = None THEN origin ELSE Append(origin, Sender(data))
     /\ UNCHANGED <<question_bank, quiz_results, quiz_attempts, now, inflight,
                    bank_origin, result_request>>

\* update_one({'_id': quiz_id, 'teacher_id': user_id}, {'$set': {'status': status}})
SetStatus(qs, quiz_id, status) ==
  [i \in 1..Len(qs) |->
     IF i = quiz_id /\ qs[i].teacher_id = get_current_user_id
     THEN [qs[i] EXCEPT !.status = status] ELSE qs[i]]

MatchedCount(qs, quiz_id) ==
  IF quiz_id \in 1..Len(qs) /\ qs[quiz_id].teacher_id = get_current_user_id
  THEN 1 ELSE 0

publish_quiz(quiz_id) ==
  /\ quizzes' = SetStatus(quizzes, quiz_id, "published")
  /\ response' = [op |-> "publish_quiz",
                  code |-> IF MatchedCount(quizzes, quiz_id) = 0 THEN 404 ELSE 200]
  /\ UNCHANGED <<question_bank, quiz_results, quiz_attempts, now, inflight, origin,
                 bank_origin, result_request>>

unpublish_quiz(quiz_id) ==
  /\ quizzes' = SetStatus(quizzes, quiz_id, "draft")
  /\ response' = [op |-> "unpublish_quiz",
                  code |-> IF MatchedCount(quizzes, quiz_id) = 0 THEN 404 ELSE 200]
  /\ UNCHANGED <<question_bank, quiz_results, quiz_attempts, now, inflight, origin,
                 bank_origin, result_request>>

(***************************************************************************)
(* Student-facing reads of quiz.py.                                        *)
(***************************************************************************)
\* PopAnswer without the second pop
PopCorrectAnswerOnly(q) == [k \in DOMAIN q \ {"correct_answer"} |-> q[k]]

\* q.pop('correct_answer', None); q.pop('explanation', None)
PopAnswer(q) == [k \in DOMAIN q \ {"correct_answer", "explanation"} |-> q[k]]

\* the quiz as get_student_quizzes and get_student_quiz return it
StudentView(quiz, quiz_id) ==
  [id |-> quiz_id,
   title |-> quiz.title,
   subject |-> quiz.subject,
   teacher_id |-> quiz.teacher_id,
   status |-> quiz.status,
   total_points |-> quiz.total_points,
   questions |-> [i \in 1..Len(quiz.questions) |-> PopAnswer(quiz.questions[i])]]

\* find({'status': 'published'[, 'subject': subject]}).sort('created_at', -1)
PublishedIds(qs, subject) ==
  LET ids == {i \in 1..Len(qs) :
                qs[i].status = "published" /\ (subject # "" => qs[i].subject = subject)}
      RECURSIVE Desc(_)
      Desc(S) == IF S = {} THEN <<>>
                 ELSE LET m == CHOOSE i \in S : \A j \in S : j <= i
                      IN <<m>> \o Desc(S \ {m})
  IN Desc(ids)

get_student_quizzes(subject) ==
  LET ids == PublishedIds(quizzes, subject)
  IN /\ response' = [op |-> "get_student_quizzes", code |-> 200,
                     quizzes |-> [n \in 1..Len(ids) |-> StudentView(quizzes[ids[n]], ids[n])]]
     /\ UNCHANGED <<question_bank, quizzes, quiz_results, quiz_attempts, now,
                    inflight, origin, bank_origin, result_request>>

\* find_one({'_id': quiz_id, 'status': 'published'}) on the quizzes
FindPublished(qs, quiz_id) ==
  IF quiz_id \in 1..Len(qs) /\ qs[quiz_id].status = "published"
  THEN Some(qs[quiz_id]) ELSE None

get_student_quiz(quiz_id) ==
  LET quiz == FindPublished(quizzes, quiz_id)
  IN /\ response' = IF quiz = None
                    THEN [op |-> "get_student_quiz", code |-> 404]
                    ELSE [op |-> "get_student_quiz", code |-> 200,
                          quiz |-> StudentView(TheValue(quiz), quiz_id)]
     /\ UNCHANGED <<question_bank, quizzes, quiz_results, quiz_attempts, now,
                    inflight, origin, bank_origin, result_request>>

\* QuestionId giving every position the id of the first
QuestionIdOfFirst(i) == <<StrOfNat(0)>>

\* the id quiz.py gives the embedded question at 0-based position i: embedded
\* questions carry no '_id', so it is str(i)
QuestionId(i) == <<StrOfNat(i)>>

\* one question of the attempt view of quiz.py get_quiz_for_attempt
AttemptQuestion(q, i) ==
  LET base == [id |-> QuestionId(i),
               question_text |-> q.question_text,
               question_type |-> q.question_type,
               points |-> q.points,
               order_index |-> q.order_index]
  IN IF q.question_type = "multiple_choice"
     THEN base @@ [options |-> Get(q, "options", Some(<<>>))]
     ELSE base

AttemptView(quiz, quiz_id) ==
  [id |-> quiz_id,
   title |-> quiz.title,
   subject |-> quiz.subject,
   teacher_id |-> quiz.teacher_id,
   total_points |-> quiz.total_points,
   questions |-> [n \in 1..Len(quiz.questions) |-> AttemptQuestion(quiz.questions[n], n - 1)]]

get_quiz_for_attempt(quiz_id) ==
  LET quiz == FindPublished(quizzes, quiz_id)
  IN /\ response' = IF quiz = None
                    THEN [op |-> "get_quiz_for_attempt", code |-> 404]
                    ELSE [op |-> "get_quiz_for_attempt", code |-> 200,
                          quiz |-> AttemptView(TheValue(quiz), quiz_id)]
     /\ UNCHANGED <<question_bank, quizzes, quiz_results, quiz_attempts, now,
                    inflight, origin, bank_origin, result_request>>

(***************************************************************************)
(* Grading engine: submit_quiz (quiz.py).                                  *)
(***************************************************************************)
SubmitRequired == {"quiz_id", "student_id", "student_email", "answers"}

\* next((ans for ans in answers if ans.get('question_id') == question_id), None):
\* the position of the first matching entry, 0 for None
FirstAnswer(answers, question_id) ==
  FirstIndex({n \in 1..Len(answers) :
                Has(answers[n], "question_id") /\ answers[n].question_id = question_id})

\* QuestionResult with the points awarded whether or not the answer is correct
QuestionResultFullScore(question, i, answers) ==
  LET question_id == QuestionId(i)
      n == FirstAnswer(answers, question_id)
      found == n # 0
      answer == IF found THEN Get(answers[n], "answer", <<>>) ELSE <<>>
  IN [question_id |-> question_id,
      question_text |-> question.question_text,
      question_type |-> question.question_type,
      student_answer |-> answer,
      correct_answer |-> question.correct_answer,
      is_correct |-> IsCorrect(question.question_type, found, answer,
                               question.correct_answer),
      points |-> question.points,
      score |-> question.points,
      explanation |-> question.explanation]

\* the question_result of the embedded question at 0-based position i
QuestionResult(question, i, answers) ==
  LET question_id == QuestionId(i)
      n == FirstAnswer(answers, question_id)
      found == n # 0
      answer == IF found THEN Get(answers[n], "answer", <<>>) ELSE <<>>
      is_correct == IsCorrect(question.question_type, found, answer,
                              question.correct_answer)
  IN [question_id |-> question_id,
      question_text |-> question.question_text,
      question_type |-> question.question_type,
      student_answer |-> answer,
      correct_answer |-> question.correct_answer,
      is_correct |-> is_correct,
      points |-> question.points,
      score |-> IF is_correct THEN question.points ELSE 0,
      explanation |-> question.explanation]

\* the loop over quiz['questions'] from 1-based position n on, carrying
\* question_results, total_score and correct_answers
RECURSIVE Evaluate(_, _, _, _)
Evaluate(questions, answers, n, acc) ==
  IF n > Len(questions) THEN acc
  ELSE LET qr == QuestionResult(questions[n], n - 1, answers)
       IN Evaluate(questions, answers, n + 1,
            [question_results |-> Append(acc.question_results, qr),
             total_score |-> acc.total_score + qr.score,
             correct_answers |-> acc.correct_answers + (IF qr.is_correct THEN 1 ELSE 0)])

EmptyTally == [question_results |-> <<>>, total_score |-> 0, correct_answers |-> 0]

\* result_doc of submit_quiz
ResultDoc(quiz, data, time) ==
  LET tally == Evaluate(quiz.questions, data.answers, 1, EmptyTally)
      max_score == quiz.total_points
  IN [quiz_id |-> data.quiz_id,
      quiz_title |-> quiz.title,
      quiz_subject |-> quiz.subject,
      student_id |-> data.student_id,
      student_email |-> data.student_email,
      total_questions |-> Len(quiz.questions),
      correct_answers |-> tally.correct_answers,
      total_score |-> tally.total_score,
      max_score |-> max_score,
      percentage |-> RoundedPercentage(tally.total_score, max_score),
      grade |-> Grade(tally.total_score, max_score),
      question_results |-> tally.question_results,
      submitted_at |-> time]

SubmitQuizOutcome(qs, data, time) ==
  IF validate_required_fields(data, SubmitRequired) # {}
  THEN [code |-> 400, doc |-> None]
  ELSE LET quiz == FindPublished(qs, data.quiz_id)
       IN IF quiz = None THEN [code |-> 404, doc |-> None]
          ELSE [code |-> 201, doc |-> Some(ResultDoc(TheValue(quiz), data, time))]

\* InsertResult as an upsert keyed by quiz and student
UpsertResult(results, out) ==
  IF out.doc = None THEN results
  ELSE LET doc == TheValue(out.doc)
           same == {i \in 1..Len(results) :
                      /\ results[i].quiz_id = doc.quiz_id
                      /\ results[i].student_email = doc.student_email}
       IN IF same = {} THEN Append(results, doc)
          ELSE [i \in 1..Len(results) |->
                  IF i = FirstIndex(same) THEN doc ELSE results[i]]

\* insert_one on quiz_results; the inserted _id is the new position
\* InsertResult scoring 0 every result but the first of the store
InsertResultRetakeZero(results, out) ==
  IF out.doc = None THEN results
  ELSE Append(results, IF results = <<>> THEN TheValue(out.doc)
                       ELSE [TheValue(out.doc) EXCEPT !.total_score = 0])

InsertResult(results, out) ==
  IF out.doc = None THEN results ELSE Append(results, TheValue(out.doc))

SubmitResponse(op, results, out) ==
  IF out.doc = None THEN [op |-> op, code |-> out.code]
  ELSE [op |-> op, code |-> out.code,
        result |-> TheValue(out.doc) @@ [id |-> Len(results) + 1]]

submit_quiz(data) ==
  LET out == SubmitQuizOutcome(quizzes, data, now)
  IN /\ quiz_results' = InsertResult(quiz_results, out)
     /\ response' = SubmitResponse("submit_quiz", quiz_results, out)
     /\ result_request' = IF out.doc = None THEN result_request
                     ELSE Append(result_request, [op |-> "submit_quiz", data |-> data])
     /\ UNCHANGED <<question_bank, quizzes, quiz_attempts, now, inflight, origin,
                 bank_origin>>

(***************************************************************************)
(* Grading engine of the student blueprint: submit_quiz_attempt            *)
(* (studentquiz.py).                                                       *)
(***************************************************************************)
AttemptSubmitRequired == {"quiz_id", "student_email", "answers"}

\* the generated id "q_" + md5(question_text + "_" + i + "_" + quiz_id)[:12]
\* of the embedded question at 0-based position i; the digest is kept as the
\* text it is taken of
HashedQuestionId(question, i, quiz_id) ==
  <<"q", "_">> \o question.question_text \o <<"_", StrOfNat(i), "_", StrOfNat(quiz_id)>>

\* student_answers_dict.get(question_id, ''): the dict is filled in request
\* order, so the last entry of a question_id is the one kept
DictAnswer(answers, question_id) ==
  LET S == {n \in 1..Len(answers) : Get(answers[n], "question_id", <<>>) = question_id}
  IN IF S = {} THEN <<>>
     ELSE Get(answers[CHOOSE n \in S : \A m \in S : m <= n], "answer", <<>>)

AttemptQuestionResult(q, i, data) ==
  LET question_id == HashedQuestionId(q, i, data.quiz_id)
      student_answer == DictAnswer(data.answers, question_id)
      is_correct == IsCorrectAttempt(student_answer, q.correct_answer)
  IN [question_id |-> question_id,
      question_text |-> q.question_text,
      question_type |-> q.question_type,
      student_answer |-> student_answer,
      correct_answer |-> q.correct_answer,
      is_correct |-> is_correct,
      points |-> q.points,
      score |-> IF is_correct THEN q.points ELSE 0,
      explanation |-> q.explanation]

RECURSIVE AttemptEvaluate(_, _, _, _)
AttemptEvaluate(questions, data, n, acc) ==
  IF n > Len(questions) THEN acc
  ELSE LET qr == AttemptQuestionResult(questions[n], n - 1, data)
       IN AttemptEvaluate(questions, data, n + 1,
            [question_results |-> Append(acc.question_results, qr),
             total_score |-> IF qr.is_correct THEN acc.total_score + qr.score
                             ELSE acc.total_score,
             correct_answers |-> IF qr.is_correct THEN acc.correct_answers + 1
                                 ELSE acc.correct_answers])

\* result_data of submit_quiz_attempt
AttemptResultDoc(quiz, data, time) ==
  LET tally == AttemptEvaluate(quiz.questions, data, 1, EmptyTally)
      max_score == quiz.total_points
  IN [quiz_id |-> data.quiz_id,
      quiz_title |-> quiz.title,
      quiz_subject |-> quiz.subject,
      student_id |-> Get(data, "student_id", ""),
      student_email |-> data.student_email,
      total_questions |-> Len(quiz.questions),
      correct_answers |-> tally.correct_answers,
      total_score |-> tally.total_score,
      max_score |-> max_score,
      percentage |-> RoundedPercentage(tally.total_score, max_score),
      grade |-> Grade(tally.total_score, max_score),
      question_results |-> tally.question_results,
      answers |-> data.answers,
      submitted_at |-> time]

\* find_one({'_id': quiz_id}) on the quizzes: no status in the filter
FindQuiz(qs, quiz_id) ==
  IF quiz_id \in 1..Len(qs) THEN Some(qs[quiz_id]) ELSE None

SubmitQuizAttemptOutcome(qs, data, time) ==
  IF AttemptSubmitRequired \ DOMAIN data # {}
  THEN [code |-> 400, doc |-> None]
  ELSE LET quiz == FindQuiz(qs, data.quiz_id)
       IN IF quiz = None THEN [code |-> 404, doc |-> None]
          ELSE [code |-> 200, doc |-> Some(AttemptResultDoc(TheValue(quiz), data, time))]

submit_quiz_attempt(data) ==
  LET out == SubmitQuizAttemptOutcome(quizzes, data, now)
  IN /\ quiz_results' = InsertResult(quiz_results, out)
     /\ response' = SubmitResponse("submit_quiz_attempt", quiz_results, out)
     /\ result_request' = IF out.doc = None THEN result_request
                     ELSE Append(result_request, [op |-> "submit_quiz_attempt", data |-> data])
     /\ UNCHANGED <<question_bank, quizzes, quiz_attempts, now, inflight, origin,
                 bank_origin>>

\* quiz_data['questions'].sort(key=order_index): a stable sort, by insertion
RECURSIVE SortByOrderIndex(_)
SortByOrderIndex(qs) ==
  IF qs = <<>> THEN <<>>
  ELSE LET rest == SortByOrderIndex(SubSeq(qs, 1, Len(qs) - 1))
           last == qs[Len(qs)]
           k == Cardinality({n \in 1..Len(rest) : rest[n].order_index <= last.order_index})
       IN SubSeq(rest, 1, k) \o <<last>> \o SubSeq(rest, k + 1, Len(rest))

\* one question of the quiz_data of the student blueprint's
\* get_quiz_for_attempt, for the embedded question q at 0-based position i
StudentAttemptQuestion(q, i, quiz_id) ==
  LET base == [id |-> HashedQuestionId(q, i, quiz_id),
               question_text |-> q.question_text,
               question_type |-> q.question_type,
               points |-> q.points,
               order_index |-> q.order_index]
  IN IF q.question_type \in {"multiple_choice", "true_false"}
     THEN base @@ [options |-> Get(q, "options", Some(<<>>))]
     ELSE base

StudentAttemptView(quiz, quiz_id) ==
  [id |-> quiz_id,
   title |-> quiz.title,
   subject |-> quiz.subject,
   total_points |-> quiz.total_points,
   questions |-> SortByOrderIndex(
                   [n \in 1..Len(quiz.questions) |->
                      StudentAttemptQuestion(quiz.questions[n], n - 1, quiz_id)])]

\* get_quiz_for_attempt of the student blueprint (studentquiz.py): the quiz
\* is found by id alone and its status is looked at afterwards
student_get_quiz_for_attempt(quiz_id) ==
  LET quiz == FindQuiz(quizzes, quiz_id)
  IN /\ response' =
          IF quiz = None
          THEN [op |-> "student_get_quiz_for_attempt", code |-> 404,
                error |-> "Quiz not found"]
          ELSE IF TheValue(quiz).status # "published"
          THEN [op |-> "student_get_quiz_for_attempt", code |-> 403,
                error |-> "Quiz is not available"]
          ELSE [op |-> "student_get_quiz_for_attempt", code |-> 200,
                quiz |-> StudentAttemptView(TheValue(quiz), quiz_id)]
     /\ UNCHANGED <<question_bank, quizzes, quiz_results, quiz_attempts, now,
                    inflight, origin, bank_origin, result_request>>

(***************************************************************************)
(* Attempt tracker: save_quiz_attempt, get_quiz_attempt (quiz.py).         *)
(***************************************************************************)
SaveRequired == {"quiz_id", "student_id", "student_email", "answers"}

\* attempt_doc of save_quiz_attempt
AttemptDoc(data, time) ==
  [quiz_id |-> data.quiz_id,
   student_id |-> data.student_id,
   student_email |-> data.student_email,
   answers |-> data.answers,
   current_question |-> Get(data, "current_question", 0),
   time_spent |-> Get(data, "time_spent", 0),
   is_submitted |-> FALSE,
   created_at |-> time,
   updated_at |-> time,
   expires_at |-> time + AttemptTTL]

\* Active without the expires_at condition
ActiveIgnoringExpiry(attempt, time) == ~attempt.is_submitted

\* {'is_submitted': False, 'expires_at': {'$gt': utcnow()}}
Active(attempt, time) == ~attempt.is_submitted /\ attempt.expires_at > time

\* find_one({'quiz_id', 'student_id', 'is_submitted': False, 'expires_at': {'$gt': now}}):
\* the _id of the first match, 0 for None
ExistingAttempt(attempts, data, time) ==
  FirstIndex({i \in 1..Len(attempts) :
                /\ attempts[i].quiz_id = data.quiz_id
                /\ attempts[i].student_id = data.student_id
                /\ Active(attempts[i], time)})

\* UpdateAttempt moving expires_at to 24 hours after the update
\* an update that writes the answers alone, field by field
UpdateAttemptAnswersOnly(attempts, id, data, time) ==
  [i \in 1..Len(attempts) |->
     IF i = id
     THEN [attempts[i] EXCEPT !.answers = data.answers,
                              !.updated_at = time]
     ELSE attempts[i]]

UpdateAttemptExtendExpiry(attempts, id, data, time) ==
  [i \in 1..Len(attempts) |->
     IF i = id
     THEN [attempts[i] EXCEPT !.answers = data.answers,
                              !.current_question = Get(data, "current_question", 0),
                              !.time_spent = Get(data, "time_spent", 0),
                              !.updated_at = time,
                              !.expires_at = time + AttemptTTL]
     ELSE attempts[i]]

\* update_one({'_id': id}, {'$set': {answers, current_question, time_spent, updated_at}})
UpdateAttempt(attempts, id, data, time) ==
  [i \in 1..Len(attempts) |->
     IF i = id
     THEN [attempts[i] EXCEPT !.answers = data.answers,
                              !.current_question = Get(data, "current_question", 0),
                              !.time_spent = Get(data, "time_spent", 0),
                              !.updated_at = time]
     ELSE attempts[i]]

\* the write of save_quiz_attempt once find_one has returned existing
\* (0 for None): the collection and the response.  attempt_doc is built at
\* doc_time, before the find; the update stamps updated_at at write_time
SaveWrite(attempts, existing, data, doc_time, write_time) ==
  IF existing # 0
  THEN [attempts |-> UpdateAttempt(attempts, existing, data, write_time),
        code |-> 200, attempt_id |-> existing]
  ELSE [attempts |-> Append(attempts, AttemptDoc(data, doc_time)),
        code |-> 201, attempt_id |-> Len(attempts) + 1]

save_quiz_attempt(data) ==
  /\ IF validate_required_fields(data, SaveRequired) # {}
     THEN /\ response' = [op |-> "save_quiz_attempt", code |-> 400]
          /\ UNCHANGED quiz_attempts
     ELSE LET w == SaveWrite(quiz_attempts,
                             ExistingAttempt(quiz_attempts, data, now), data, now, now)
          IN /\ quiz_attempts' = w.attempts
             /\ response' = [op |-> "save_quiz_attempt", code |-> w.code,
                             attempt_id |-> w.attempt_id]
  /\ UNCHANGED <<question_bank, quizzes, quiz_results, now, inflight, origin,
                 bank_origin, result_request>>

(***************************************************************************)
(* save_quiz_attempt as the store sees it when requests overlap: the       *)
(* find_one and the update_one/insert_one are two store operations, and    *)
(* the operations of other requests may come between them.  inflight holds *)
(* the requests that have read and not yet written.                        *)
(***************************************************************************)
save_quiz_attempt_find(data) ==
  /\ validate_required_fields(data, SaveRequired) = {}
  /\ inflight' = Append(inflight,
                        [data |-> data,
                         existing |-> ExistingAttempt(quiz_attempts, data, now),
                         doc_time |-> now])
  /\ UNCHANGED <<question_bank, quizzes, quiz_results, quiz_attempts, now,
                 response, origin, bank_origin, result_request>>

save_quiz_attempt_write(n) ==
  LET r == inflight[n]
      w == SaveWrite(quiz_attempts, r.existing, r.data, r.doc_time, now)
  IN /\ quiz_attempts' = w.attempts
     /\ response' = [op |-> "save_quiz_attempt", code |-> w.code,
                     attempt_id |-> w.attempt_id]
     /\ inflight' = [i \in 1..(Len(inflight) - 1) |->
                       IF i < n THEN inflight[i] ELSE inflight[i + 1]]
     /\ UNCHANGED <<question_bank, quizzes, quiz_results, now, origin,
                 bank_origin, result_request>>

\* find_one of get_quiz_attempt: student_email and student_id are '' when the
\* query string does not carry them
ResumeAttempt(attempts, quiz_id, student_email, student_id, time) ==
  FirstIndex({i \in 1..Len(attempts) :
                /\ attempts[i].quiz_id = quiz_id
                /\ Active(attempts[i], time)
                /\ (student_email # "" => attempts[i].student_email = student_email)
                /\ (student_id # "" => attempts[i].student_id = student_id)})

get_quiz_attempt(quiz_id, student_email, student_id) ==
  /\ response' =
       IF student_email = "" /\ student_id = ""
       THEN [op |-> "get_quiz_attempt", code |-> 400]
       ELSE LET id == ResumeAttempt(quiz_attempts, quiz_id, student_email, student_id, now)
            IN IF id = 0
               THEN [op |-> "get_quiz_attempt", code |-> 200, attempt |-> None]
               ELSE [op |-> "get_quiz_attempt", code |-> 200,
                     attempt |-> Some(quiz_attempts[id] @@ [id |-> id])]
  /\ UNCHANGED <<question_bank, quizzes, quiz_results, quiz_attempts, now,
                 inflight, origin, bank_origin, result_request>>

\* the clock of the deployment advances
Tick ==
  /\ now + TickHours <= MaxTime
  /\ now' = now + TickHours
  /\ UNCHANGED <<question_bank, quizzes, quiz_results, quiz_attempts, response,
                 inflight, origin, bank_origin, result_request>>

(***************************************************************************)
(* Requests.                                                               *)
(***************************************************************************)
QuestionTypes == {"multiple_choice", "short_answer", "numerical", "true_false"}
StudentIds == {"s1", "s2"}
StudentEmails == {"e1", "e2"}
Texts == StrsUpTo(MaxStrLen)

RECURSIVE SeqsUpTo(_, _)
SeqsUpTo(S, n) ==
  IF n = 0 THEN {<<>>}
  ELSE LET shorter == SeqsUpTo(S, n - 1)
       IN shorter \cup {Append(s, x) : s \in {t \in shorter : Len(t) = n - 1}, x \in S}

\* bodies of POST /question-bank: a multiple_choice question, one with a
\* single option, one with a blank question_text
BankInputs ==
  { [question_text |-> <<"a", " ">>, question_type |-> "multiple_choice",
     subject |-> "Math", topic |-> <<"a">>, correct_answer |-> <<"a">>,
     points |-> 3, options |-> << <<"a">>, <<"A">> >>, explanation |-> <<"A">>],
    [question_text |-> <<"A">>, question_type |-> "multiple_choice",
     subject |-> "Math", topic |-> <<"a">>, correct_answer |-> <<"a">>,
     points |-> 1, options |-> << <<"a">> >>],
    [question_text |-> <<" ">>, question_type |-> "short_answer",
     subject |-> "Math", topic |-> <<"a">>, correct_answer |-> <<"a">>,
     points |-> 1] }

\* entries of data['questions'] of POST /quizzes: inline questions, an
\* inline question without 'points', references into the question bank
InlineEntries ==
  { [question_text |-> <<"a">>, question_type |-> "multiple_choice",
     correct_answer |-> <<"a">>, points |-> 2,
     options |-> << <<"a">>, <<"A">> >>, explanation |-> <<"a">>],
    [question_text |-> <<"A", " ">>, question_type |-> "true_false",
     correct_answer |-> <<"A">>, points |-> 1] }

BadInlineEntry ==
  [question_text |-> <<"A">>, question_type |-> "multiple_choice",
   correct_answer |-> <<"A">>]

BankRefEntry(id) == [question_bank_id |-> id]

EntryInputs == InlineEntries \cup {BankRefEntry(1)}

\* the entries that the multi-question requests are made of
SeqEntryInputs == {e \in EntryInputs : Has(e, "explanation") \/ Has(e, "question_bank_id")}

\* bodies of POST /quizzes
QuizInputs ==
  {[title |-> <<"a">>, subject |-> "Math", questions |-> es] :
      es \in SeqsUpTo(SeqEntryInputs, MaxQuestions)
             \cup {<<BadInlineEntry>>, <<BankRefEntry(MaxBank + 1)>>}}
  \cup
  {[title |-> <<"a">>, subject |-> "Math", questions |-> <<e>>, status |-> "published"] :
      e \in EntryInputs}
  \cup
  {[title |-> <<"a", " ">>, subject |-> "Math", questions |-> <<>>],
   [title |-> <<" ">>, subject |-> "Math", questions |-> <<>>],
   [title |-> <<"A">>, questions |-> <<>>]}

QuizIds == 1..(MaxQuizzes + 1)

\* the ids a client of quiz.py holds for the questions of a quiz, by 0-based
\* position
QuestionIds == [i \in 0..MaxQuestions |-> QuestionId(i)]

\* the answers of a submission, for a client that names the question at
\* 0-based position i by ids[i]
AnswerLists(ids) ==
  { <<[question_id |-> ids[1], answer |-> <<" ", "A">>],
      [question_id |-> ids[0], answer |-> <<"a">>]>>,
    <<[question_id |-> ids[0]], [question_id |-> ids[0], answer |-> <<"a">>]>> }

\* bodies of POST /student/quiz/submit of quiz.py
SubmitInputs ==
  {[quiz_id |-> q, student_id |-> "s1", student_email |-> "e1", answers |-> as] :
      q \in QuizIds, as \in AnswerLists(QuestionIds)}
  \cup {[quiz_id |-> 1, student_id |-> "", student_email |-> "e1", answers |-> <<>>]}

\* the id a client holds for the question at 0-based position i of quiz q
\* after fetching it from the student blueprint
ClientQuestionId(qs, q, i) ==
  IF i < Len(qs[q].questions)
  THEN HashedQuestionId(qs[q].questions[i + 1], i, q)
  ELSE QuestionId(i)

ClientQuestionIds(qs, q) == [i \in 0..MaxQuestions |-> ClientQuestionId(qs, q, i)]

\* bodies of POST /student/quiz/submit of studentquiz.py, for the quizzes qs
AttemptSubmitInputs(qs) ==
  UNION {{[quiz_id |-> q, student_id |-> "s1", student_email |-> "e1", answers |-> as] :
            as \in AnswerLists(ClientQuestionIds(qs, q))} :
         q \in {q2 \in QuizIds : q2 <= Len(qs)}}
  \cup {[quiz_id |-> MaxQuizzes + 1, student_email |-> "e1", answers |-> <<>>],
        [quiz_id |-> 1, student_email |-> "e1"]}

\* bodies of POST /student/quiz/attempt
SaveInputs ==
  {[quiz_id |-> 1, student_id |-> "s1", student_email |-> "e1", answers |-> as] :
      as \in {<<>>, <<[question_id |-> QuestionId(0), answer |-> <<"a">>]>>}}
  \cup {[quiz_id |-> 1, student_id |-> "s1", student_email |-> "", answers |-> <<>>]}

(***************************************************************************)
(* The system: the handlers of the registered blueprint and of the student *)
(* blueprint over one store, each request served whole, at one instant of  *)
(* the clock (the clock runs in SpecAttempt).                              *)
(***************************************************************************)
Init ==
  /\ question_bank = <<>>
  /\ quizzes = <<>>
  /\ quiz_results = <<>>
  /\ quiz_attempts = <<>>
  /\ now = 0
  /\ response = [op |-> "none", code |-> 0]
  /\ inflight = <<>>
  /\ origin = <<>>
  /\ bank_origin = <<>>
  /\ result_request = <<>>

AddToQuestionBank ==
  /\ Len(question_bank) < MaxBank
  /\ \E data \in BankInputs : add_to_question_bank(data)

CreateQuiz ==
  /\ Len(quizzes) < MaxQuizzes
  /\ \E data \in QuizInputs : create_quiz(data)

PublishQuiz == \E quiz_id \in QuizIds : publish_quiz(quiz_id)

UnpublishQuiz == \E quiz_id \in QuizIds : unpublish_quiz(quiz_id)

GetStudentQuizzes == \E subject \in {"", "Math", "Art"} : get_student_quizzes(subject)

GetStudentQuiz == \E quiz_id \in QuizIds : get_student_quiz(quiz_id)

GetQuizForAttempt == \E quiz_id \in QuizIds : get_quiz_for_attempt(quiz_id)

SubmitQuiz ==
  /\ Len(quiz_results) < MaxResults
  /\ \E data \in SubmitInputs : submit_quiz(data)

SubmitQuizAttempt ==
  /\ Len(quiz_results) < MaxResults
  /\ \E data \in AttemptSubmitInputs(quizzes) : submit_quiz_attempt(data)

SaveQuizAttempt ==
  /\ Len(quiz_attempts) < MaxAttempts
  /\ \E data \in SaveInputs : save_quiz_attempt(data)

GetQuizAttempt ==
  \E student_email \in {"", "e1"}, student_id \in {"", "s1"} :
     get_quiz_attempt(1, student_email, student_id)

Next ==
  \/ AddToQuestionBank
  \/ CreateQuiz
  \/ PublishQuiz
  \/ UnpublishQuiz
  \/ GetStudentQuizzes
  \/ GetStudentQuiz
  \/ GetQuizForAttempt
  \/ SubmitQuiz
  \/ SubmitQuizAttempt
  \/ SaveQuizAttempt
  \/ GetQuizAttempt

Spec == Init /\ [][Next]_vars

(***************************************************************************)
(* The attempt tracker under a running clock: richer save requests, in     *)
(* which the student_id and the student_email vary independently.          *)
(***************************************************************************)
ProgressInputs ==
  { [answers |-> <<>>],
    [answers |-> <<[question_id |-> QuestionId(0), answer |-> <<"a">>]>>,
     current_question |-> 1, time_spent |-> 7],
    [answers |-> <<>>, current_question |-> 1] }

AttemptSaveInputs ==
  {[quiz_id |-> 1, student_id |-> sid, student_email |-> em] @@ p :
      sid \in StudentIds, em \in StudentEmails, p \in ProgressInputs}
  \cup {[quiz_id |-> 1, student_id |-> "s1", student_email |-> "", answers |-> <<>>]}

SaveProgress ==
  /\ Len(quiz_attempts) < MaxAttempts
  /\ \E data \in AttemptSaveInputs : save_quiz_attempt(data)

ResumeProgress ==
  \E student_email \in StudentEmails \cup {""}, student_id \in StudentIds \cup {""} :
     get_quiz_attempt(1, student_email, student_id)

NextAttempt == SaveProgress \/ ResumeProgress \/ Tick

SpecAttempt == Init /\ [][NextAttempt]_vars

(***************************************************************************)
(* The attempt tracker with overlapping save requests.                     *)
(***************************************************************************)
SaveFind ==
  /\ Len(inflight) < MaxInflight
  /\ Len(quiz_attempts) + Len(inflight) < MaxAttempts
  /\ \E data \in AttemptSaveInputs : save_quiz_attempt_find(data)

SaveCommit == \E n \in 1..Len(inflight) : save_quiz_attempt_write(n)

NextConc == SaveFind \/ SaveCommit \/ Tick

SpecConc == Init /\ [][NextConc]_vars

(***************************************************************************)
(* The grading engine on its own: the store holds one published quiz, as   *)
(* create_quiz leaves it, and one submission is graded by either handler.  *)
(* The quizzes range over the question types and correct answers (one      *)
(* question) and over the point values (two questions).                    *)
(***************************************************************************)
PointInputs == (-1..MaxPoints) \cup {201, 1808}

GradeQuestion(question_type, correct_answer, points) ==
  LET base == [question_text |-> <<"a">>, question_type |-> question_type,
               correct_answer |-> correct_answer, points |-> points]
  IN IF question_type = "multiple_choice"
     THEN base @@ [options |-> << <<"a">>, <<"A">> >>]
     ELSE base

GradeQuizInputs ==
  {[title |-> <<"a">>, subject |-> "Math", status |-> "published",
    questions |-> <<GradeQuestion(t, c, 1)>>] : t \in QuestionTypes, c \in Texts}
  \cup
  {[title |-> <<"a">>, subject |-> "Math", status |-> "published",
    questions |-> <<GradeQuestion("short_answer", <<"a">>, p1),
                    GradeQuestion("short_answer", <<"a">>, p2)>>] :
      p1 \in PointInputs, p2 \in PointInputs}

InitGrade ==
  /\ question_bank = <<>>
  /\ quizzes \in {<<QuizDoc(<<>>, data)>> : data \in GradeQuizInputs}
  /\ quiz_results = <<>>
  /\ quiz_attempts = <<>>
  /\ now = 0
  /\ response = [op |-> "none", code |-> 0]
  /\ inflight = <<>>
  /\ origin = <<DefaultSender>>
  /\ bank_origin = <<>>
  /\ result_request = <<>>

\* the answers sent for quiz 1 by a client that names the question at 0-based
\* position i by ids[i]
GradeAnswerLists(ids) ==
  IF Len(quizzes[1].questions) = 1
  THEN {<<>>, <<[question_id |-> ids[0]]>>}
       \cup {<<[question_id |-> ids[0], answer |-> a]>> : a \in Texts}
  ELSE {<<[question_id |-> ids[0], answer |-> a], [question_id |-> ids[1], answer |-> b]>> :
          a \in {<<"a">>, <<"A">>, <<" ">>}, b \in {<<"a">>, <<"A">>, <<" ">>}}

GradeInputs(ids) ==
  {[quiz_id |-> 1, student_id |-> "s1", student_email |-> "e1", answers |-> as] :
      as \in GradeAnswerLists(ids)}

GradeSubmit ==
  /\ quiz_results = <<>>
  /\ \E data \in GradeInputs(QuestionIds) : submit_quiz(data)

GradeSubmitAttempt ==
  /\ quiz_results = <<>>
  /\ \E data \in GradeInputs(ClientQuestionIds(quizzes, 1)) :
        submit_quiz_attempt(data)

GradeFetch == \E quiz_id \in QuizIds : get_quiz_for_attempt(quiz_id)

GradeFetchAttempt == \E quiz_id \in QuizIds : student_get_quiz_for_attempt(quiz_id)

NextGrade == GradeSubmit \/ GradeSubmitAttempt \/ GradeFetch \/ GradeFetchAttempt

SpecGrade == InitGrade /\ [][NextGrade]_vars

(***************************************************************************)
(* The question bank on its own: requests that vary the question_text (with *)
(* and without surrounding blanks), the subject, the type and the options. *)
(***************************************************************************)
BankQuestionTexts == {<<"a">>, <<" ", "a">>, <<"A">>, <<" ">>}
BankSubjects == {"Math", "Art"}
BankOptionLists == {<<>>, << <<"a">> >>, << <<"a">>, <<"A">> >>}

QuestionInputs ==
  {[question_text |-> t, question_type |-> "multiple_choice", subject |-> sub,
    topic |-> <<"a">>, correct_answer |-> <<"a">>, points |-> 1, options |-> os] :
      t \in BankQuestionTexts, sub \in BankSubjects, os \in BankOptionLists}
  \cup
  {[question_text |-> t, question_type |-> ty, subject |-> sub,
    topic |-> <<"a">>, correct_answer |-> <<"a">>, points |-> 1] :
      t \in BankQuestionTexts, sub \in BankSubjects,
      ty \in {"multiple_choice", "short_answer"}}
  \cup
  {[question_text |-> <<"a">>, question_type |-> "short_answer", subject |-> "Math",
    correct_answer |-> <<"a">>, points |-> 1]}

AddQuestion ==
  /\ Len(question_bank) < MaxBankSize
  /\ \E data \in QuestionInputs : add_to_question_bank(data)

NextBank == AddQuestion

SpecBank == Init /\ [][NextBank]_vars

(***************************************************************************)
(* Results aggregator: get_teacher_results (quiz.py).  A request carries   *)
(* the optional filters student_email and subject ("" when absent) and     *)
(* start_date and end_date, given as day numbers (None when absent or not  *)
(* parseable as a date).                                                   *)
(***************************************************************************)
\* datetime.strptime(date, '%Y-%m-%d'): the first hour of the day
DayStart(day) == day * 24

\* end.replace(hour=23, minute=59, second=59): the last hour of the day
DayEnd(day) == day * 24 + 23

\* the ids of find(query): the query holds student_email, quiz_subject and
\* the submitted_at range, each only when its filter is given; end_date is
\* moved to the last second of its day
FindResults(results, args) ==
  {i \in 1..Len(results) :
     /\ args.student_email # "" => results[i].student_email = args.student_email
     /\ args.subject # "" => results[i].quiz_subject = args.subject
     /\ args.start_date # None =>
           results[i].submitted_at >= DayStart(TheValue(args.start_date))
     /\ args.end_date # None =>
           results[i].submitted_at <= DayEnd(TheValue(args.end_date))}

RECURSIVE SumPercentage(_, _)
SumPercentage(results, ids) ==
  IF ids = {} THEN 0
  ELSE LET i == CHOOSE j \in ids : TRUE
       IN results[i].percentage + SumPercentage(results, ids \ {i})

\* the $group stage on quiz_subject, after $match on the subject when the
\* subject filter is given; the average is kept as its sum and count
Analytics(results, args) ==
  LET matched == {i \in 1..Len(results) :
                    args.subject # "" => results[i].quiz_subject = args.subject}
      group(sub) == {i \in matched : results[i].quiz_subject = sub}
  IN {[subject |-> sub,
       average_score |-> [sum |-> SumPercentage(results, group(sub)),
                          count |-> Cardinality(group(sub))],
       total_attempts |-> Cardinality(group(sub)),
       total_students |-> Cardinality({results[i].student_email : i \in group(sub)}),
       high_score |-> CHOOSE h \in {results[i].percentage : i \in group(sub)} :
                         \A i \in group(sub) : results[i].percentage <= h,
       low_score |-> CHOOSE l \in {results[i].percentage : i \in group(sub)} :
                        \A i \in group(sub) : results[i].percentage >= l] :
      sub \in {results[i].quiz_subject : i \in matched}}

\* the store fixes no order among results of equal submitted_at, and none
\* among the groups: the response keeps the found ids and the groups as sets
get_teacher_results(args) ==
  LET found == FindResults(quiz_results, args)
  IN /\ response' = [op |-> "get_teacher_results", code |-> 200,
                     results |-> found,
                     analytics |-> Analytics(quiz_results, args),
                     total |-> Cardinality(found)]
     /\ UNCHANGED <<question_bank, quizzes, quiz_results, quiz_attempts, now,
                    inflight, origin, bank_origin, result_request>>

(***************************************************************************)
(* The results aggregator on its own: the store holds two published        *)
(* quizzes of different subjects; two students submit, and the teacher     *)
(* queries with every combination of filters.                              *)
(***************************************************************************)
ResultQuizInputs ==
  <<[title |-> <<"a">>, subject |-> "Math", status |-> "published",
     questions |-> <<GradeQuestion("short_answer", <<"a">>, 1)>>],
    [title |-> <<"A">>, subject |-> "Art", status |-> "published",
     questions |-> <<GradeQuestion("short_answer", <<"a">>, 1)>>]>>

InitResults ==
  /\ question_bank = <<>>
  /\ quizzes = [n \in 1..2 |-> QuizDoc(<<>>, ResultQuizInputs[n])]
  /\ quiz_results = <<>>
  /\ quiz_attempts = <<>>
  /\ now = 0
  /\ response = [op |-> "none", code |-> 0]
  /\ inflight = <<>>
  /\ origin = <<DefaultSender, DefaultSender>>
  /\ bank_origin = <<>>
  /\ result_request = <<>>

ResultSubmitInputs ==
  {[quiz_id |-> q, student_id |-> e, student_email |-> e,
    answers |-> <<[question_id |-> QuestionId(0), answer |-> a]>>] :
      q \in 1..2, e \in {"e1", "e2"}, a \in {<<"a">>, <<" ">>}}

ResultFilters ==
  [student_email : {"", "e1", "e2"}, subject : {"", "Math", "Art"},
   start_date : {None, Some(0), Some(1)}, end_date : {None, Some(0)}]

ResultSubmit ==
  /\ Len(quiz_results) < MaxResults
  /\ \E data \in ResultSubmitInputs : submit_quiz(data)

GetTeacherResults == \E args \in ResultFilters : get_teacher_results(args)

NextResults == ResultSubmit \/ GetTeacherResults

SpecResults == InitResults /\ [][NextResults]_vars

(***************************************************************************)
(* The quiz composer on its own: create_quiz requests that vary the title, *)
(* the status key, the options of an inline multiple_choice question and   *)
(* the sender, with publish, unpublish and the student reads.              *)
(***************************************************************************)
Senders == {[teacher |-> "t1", school |-> "sch1"], [teacher |-> "t2", school |-> "sch2"]}

ComposeTitles == {<<"a">>, <<" ", "a">>, <<"A">>}

InlineChoice(options) ==
  [question_text |-> <<"a">>, question_type |-> "multiple_choice",
   correct_answer |-> <<"a">>, points |-> 1, options |-> options]

InlineChoiceNoOptions ==
  [question_text |-> <<"a">>, question_type |-> "multiple_choice",
   correct_answer |-> <<"a">>, points |-> 1]

ComposeQuestionLists ==
  {<<>>, <<InlineChoiceNoOptions>>}
  \cup {<<InlineChoice(os)>> : os \in BankOptionLists \ {<<>>}}

ComposeInputs ==
  {[title |-> t, subject |-> "Math", questions |-> qs, sender |-> snd] :
      t \in ComposeTitles, qs \in ComposeQuestionLists, snd \in Senders}
  \cup
  {[title |-> t, subject |-> "Math", questions |-> <<>>, sender |-> snd, status |-> st] :
      t \in ComposeTitles, snd \in Senders, st \in {"published", "archived"}}

ComposeQuiz ==
  /\ Len(quizzes) < MaxQuizzes
  /\ \E data \in ComposeInputs : create_quiz(data)

StudentGetQuizForAttempt ==
  \E quiz_id \in QuizIds : student_get_quiz_for_attempt(quiz_id)

NextCompose ==
  \/ ComposeQuiz
  \/ PublishQuiz
  \/ UnpublishQuiz
  \/ GetStudentQuizzes
  \/ GetStudentQuiz
  \/ StudentGetQuizForAttempt

SpecCompose == Init /\ [][NextCompose]_vars

(***************************************************************************)
(* create_quiz under concurrency: the server handles requests in parallel, *)
(* and create_quiz reads the store (find_one on the title, the lookups of  *)
(* the bank) and then writes it (insert_one) as separate store operations. *)
(* A request is split at that point; inflight holds the requests that have *)
(* read and not yet written, each with the outcome its reads gave.         *)
(***************************************************************************)
create_quiz_find(data) ==
  /\ inflight' = Append(inflight,
                        [data |-> data,
                         out |-> CreateQuizOutcome(question_bank, quizzes, data)])
  /\ UNCHANGED <<question_bank, quizzes, quiz_results, quiz_attempts, now,
                 response, origin, bank_origin, result_request>>

create_quiz_write(n) ==
  LET r == inflight[n]
  IN /\ quizzes' = IF r.out.doc = None THEN quizzes
                   ELSE Append(quizzes, TheValue(r.out.doc))
     /\ response' = [op |-> "create_quiz", code |-> r.out.code]
     /\ origin' = IF r.out.doc = None THEN origin ELSE Append(origin, Sender(r.data))
     /\ inflight' = [i \in 1..(Len(inflight) - 1) |->
                       IF i < n THEN inflight[i] ELSE inflight[i + 1]]
     /\ UNCHANGED <<question_bank, quiz_results, quiz_attempts, now, bank_origin,
                 result_request>>

ConcQuizInputs ==
  {[title |-> t, subject |-> "Math", questions |-> <<>>, sender |-> snd] :
      t \in ComposeTitles, snd \in Senders}

CreateFind ==
  /\ Len(inflight) < MaxInflight
  /\ Len(quizzes) + Len(inflight) < MaxQuizzes
  /\ \E data \in ConcQuizInputs : create_quiz_find(data)

CreateCommit == \E n \in 1..Len(inflight) : create_quiz_write(n)

NextComposeConc == CreateFind \/ CreateCommit

SpecComposeConc == Init /\ [][NextComposeConc]_vars

(***************************************************************************)
(* Question references: teachers of two schools add questions to the bank  *)
(* and create quizzes whose entries refer to bank questions by id, among   *)
(* them an id no question has and the same id twice.                       *)
(***************************************************************************)
RefBankInputs ==
  {[question_text |-> t, question_type |-> "short_answer", subject |-> "Math",
    topic |-> <<"a">>, correct_answer |-> <<"a">>, points |-> 1, sender |-> snd] :
      t \in {<<"a">>, <<"A">>}, snd \in Senders}

RefIds == 1..3

RefLists ==
  {<<[question_bank_id |-> i]>> : i \in RefIds}
  \cup {<<[question_bank_id |-> i], [question_bank_id |-> j]>> : i \in RefIds, j \in RefIds}
  \cup {<<[question_bank_id |-> i], InlineChoice(<< <<"a">>, <<"A">> >>)>> : i \in RefIds}

RefQuizInputs ==
  {[title |-> t, subject |-> "Math", questions |-> qs, sender |-> snd] :
      t \in {<<"a">>, <<"A">>}, qs \in RefLists, snd \in Senders}

RefAddQuestion ==
  /\ Len(question_bank) < MaxBankSize
  /\ \E data \in RefBankInputs : add_to_question_bank(data)

RefCreateQuiz ==
  /\ Len(quizzes) < MaxQuizzes
  /\ \E data \in RefQuizInputs : create_quiz(data)

NextRefs == RefAddQuestion \/ RefCreateQuiz

SpecRefs == Init /\ [][NextRefs]_vars

(***************************************************************************)
(* Point values: questions are added to the bank and quizzes are created   *)
(* with inline questions and bank references, the points of a question     *)
(* being negative, zero or positive.                                       *)
(***************************************************************************)
PointValues == {-1, 0, 1}

PointBankInputs ==
  {[question_text |-> t, question_type |-> "short_answer", subject |-> "Math",
    topic |-> <<"a">>, correct_answer |-> <<"a">>, points |-> p] :
      t \in {<<"a">>, <<"A">>}, p \in PointValues}

PointQuizInputs ==
  {[title |-> t, subject |-> "Math",
    questions |-> <<[question_text |-> <<"a">>, question_type |-> "short_answer",
                     correct_answer |-> <<"a">>, points |-> p]>>] :
      t \in {<<"a">>, <<"A">>}, p \in PointValues}
  \cup
  {[title |-> t, subject |-> "Math", questions |-> <<BankRefEntry(1)>>] :
      t \in {<<"a">>, <<"A">>}}

PointAddQuestion ==
  /\ Len(question_bank) < MaxBankSize
  /\ \E data \in PointBankInputs : add_to_question_bank(data)

PointCreateQuiz ==
  /\ Len(quizzes) < MaxQuizzes
  /\ \E data \in PointQuizInputs : create_quiz(data)

NextPoints == PointAddQuestion \/ PointCreateQuiz

SpecPoints == Init /\ [][NextPoints]_vars

(***************************************************************************)
(* Properties.                                                             *)
(***************************************************************************)
PointsOf(questions) == [i \in 1..Len(questions) |-> questions[i].points]

\* C1: in every reachable state, whatever create_quiz, publish, unpublish,
\* save and submit calls led to it, every stored quiz has total_points equal
\* to the sum of the points of its embedded questions.
C1_TotalPointsIsSum ==
  \A i \in 1..Len(quizzes) :
     quizzes[i].total_points = SumSeq(PointsOf(quizzes[i].questions))

\* a quiz of a bank question (3 points) and an inline question (2 points) has
\* been created, published and unpublished again, graded and saved against
C1_Witness ==
  /\ \E i \in 1..Len(quizzes) :
        /\ Len(quizzes[i].questions) = 2
        /\ \E n \in 1..2 : Has(quizzes[i].questions[n], "question_bank_id")
        /\ \E n \in 1..2 : ~Has(quizzes[i].questions[n], "question_bank_id")
        /\ quizzes[i].total_points = 5
        /\ quizzes[i].status = "draft"
  /\ quiz_results # <<>>
  /\ quiz_attempts # <<>>
  /\ response.op = "unpublish_quiz" /\ response.code = 200

ForbiddenKeys == {"correct_answer", "explanation"}

NoAnswerKeys(questions) ==
  \A n \in 1..Len(questions) : DOMAIN questions[n] \cap ForbiddenKeys = {}

\* C2: no question object of a student-facing response (the published-quiz
\* listing, the single-quiz fetch, the fetch-for-attempt) has a
\* correct_answer key or an explanation key.
C2_NoAnswerLeak ==
  /\ response.op = "get_student_quizzes" =>
        \A n \in 1..Len(response.quizzes) : NoAnswerKeys(response.quizzes[n].questions)
  /\ (response.op \in {"get_student_quiz", "get_quiz_for_attempt"} /\ response.code = 200) =>
        NoAnswerKeys(response.quiz.questions)

\* the single-quiz fetch has returned a quiz whose stored questions carry a
\* correct answer and a non-empty explanation
C2_Witness ==
  /\ response.op = "get_student_quiz" /\ response.code = 200
  /\ Len(response.quiz.questions) = 2
  /\ \A n \in 1..2 :
        /\ Has(quizzes[response.quiz.id].questions[n], "correct_answer")
        /\ quizzes[response.quiz.id].questions[n].explanation # <<>>

\* C3: student-facing operations act only on published quizzes: a quiz is
\* listed, fetched or graded only if its status is published when the
\* operation loads it, and a submit against an absent or draft quiz creates
\* no Result.
C3_PublishedOnly ==
  [][ /\ Len(quiz_results') > Len(quiz_results) =>
           LET r == quiz_results'[Len(quiz_results')]
           IN /\ r.quiz_id \in 1..Len(quizzes)
              /\ quizzes[r.quiz_id].status = "published"
      /\ response'.op = "get_student_quizzes" =>
           \A n \in 1..Len(response'.quizzes) :
              quizzes[response'.quizzes[n].id].status = "published"
      /\ (response'.op \in {"get_student_quiz", "get_quiz_for_attempt"}
            /\ response'.code = 200) =>
           quizzes[response'.quiz.id].status = "published" ]_vars

\* the comparison the grading contract gives for each question type
ClaimedCorrect(question_type, submitted, correct_answer) ==
  CASE question_type = "multiple_choice" -> submitted = correct_answer
    [] question_type = "true_false" -> Lower(submitted) = Lower(correct_answer)
    [] OTHER -> Lower(Strip(submitted)) = Lower(Strip(correct_answer))

\* the Result just written for data marks every question that an entry of
\* data.answers names (by ids of its 0-based position) as ClaimedCorrect
\* says of that entry's answer
GradedAsClaimed(ids, data) ==
  LET r == quiz_results'[Len(quiz_results')]
      questions == quizzes[data.quiz_id].questions
  IN \A i \in 1..Len(questions), n \in 1..Len(data.answers) :
        Get(data.answers[n], "question_id", <<>>) = ids[i - 1] =>
           r.question_results[i].is_correct
             = ClaimedCorrect(questions[i].question_type,
                              Get(data.answers[n], "answer", <<>>),
                              questions[i].correct_answer)

SubmitQuizGradesAsClaimed ==
  \A data \in GradeInputs(QuestionIds) :
     (submit_quiz(data) /\ Len(quiz_results') > Len(quiz_results)) =>
        GradedAsClaimed(QuestionIds, data)

SubmitQuizAttemptGradesAsClaimed ==
  \A data \in GradeInputs(ClientQuestionIds(quizzes, 1)) :
     (submit_quiz_attempt(data) /\ Len(quiz_results') > Len(quiz_results)) =>
        GradedAsClaimed(ClientQuestionIds(quizzes, 1), data)

\* C4: for every embedded question and every submitted answer, submit sets
\* is_correct by the question type: multiple_choice iff the submitted string
\* equals correct_answer exactly (untrimmed, case-sensitive), true_false iff
\* equal ignoring case, short_answer and numerical iff equal after trimming
\* both and ignoring case.
C4_IsCorrectByType ==
  [][SubmitQuizGradesAsClaimed /\ SubmitQuizAttemptGradesAsClaimed]_vars

ScoresOf(question_results) ==
  [n \in 1..Len(question_results) |-> question_results[n].score]

\* C5: for every Result written by submit, each per-question score is the
\* question's points if it was marked correct and 0 otherwise, total_score is
\* the sum of the per-question scores, correct_answers is the number of
\* questions marked correct, and max_score is the quiz's total_points.
C5_ScoreFields ==
  \A k \in 1..Len(quiz_results) :
     LET r == quiz_results[k]
         quiz == quizzes[r.quiz_id]
     IN /\ Len(r.question_results) = Len(quiz.questions)
        /\ \A n \in 1..Len(r.question_results) :
              r.question_results[n].score
                = IF r.question_results[n].is_correct
                  THEN quiz.questions[n].points ELSE 0
        /\ r.total_score = SumSeq(ScoresOf(r.question_results))
        /\ r.correct_answers
              = Cardinality({n \in 1..Len(r.question_results) :
                               r.question_results[n].is_correct})
        /\ r.max_score = quiz.total_points

\* submit_quiz has graded a two-question quiz with the first answer correct
\* and the second incorrect, the questions worth different positive points
C5_Witness ==
  /\ response.op = "submit_quiz" /\ response.code = 201
  /\ Len(quiz_results) = 1
  /\ Len(quiz_results[1].question_results) = 2
  /\ quiz_results[1].question_results[1].is_correct
  /\ ~quiz_results[1].question_results[2].is_correct
  /\ quiz_results[1].question_results[1].points = 3
  /\ quiz_results[1].question_results[2].points = 4
  /\ quiz_results[1].total_score = 3
  /\ quiz_results[1].max_score = 7

\* the letter grade of a percentage kept in hundredths
BandOf(percentage) ==
  IF percentage >= 9000 THEN "A"
  ELSE IF percentage >= 8000 THEN "B"
  ELSE IF percentage >= 7000 THEN "C"
  ELSE IF percentage >= 6000 THEN "D"
  ELSE "F"

Abs(x) == IF x < 0 THEN -x ELSE x

\* C6 as stated: for every Result, percentage is total_score/max_score*100
\* when max_score > 0 and 0 when max_score is 0, and the grade is banded from
\* that percentage: A iff >= 90, B iff in [80, 90), C iff in [70, 80), D iff
\* in [60, 70), F otherwise.
C6_ExactPercentage ==
  \A k \in 1..Len(quiz_results) :
     LET r == quiz_results[k]
     IN /\ r.max_score > 0 => r.percentage * r.max_score = r.total_score * 10000
        /\ r.max_score = 0 => r.percentage = 0
        /\ r.max_score >= 0 => r.grade = BandOf(r.percentage)

\* C6 amended: for every Result, percentage is total_score/max_score*100
\* rounded to the nearest hundredth when max_score > 0 and 0 otherwise, and
\* the grade is banded, with inclusive lower bounds 90, 80, 70, 60, from the
\* unrounded total_score/max_score*100 (from 0 when max_score <= 0).
C6_RoundedPercentage ==
  \A k \in 1..Len(quiz_results) :
     LET r == quiz_results[k]
     IN IF r.max_score > 0
        THEN /\ 2 * Abs(r.percentage * r.max_score - r.total_score * 10000)
                  <= r.max_score
             /\ r.grade = "A" <=> r.total_score * 100 >= 90 * r.max_score
             /\ r.grade = "B" <=> /\ r.total_score * 100 >= 80 * r.max_score
                                  /\ r.total_score * 100 < 90 * r.max_score
             /\ r.grade = "C" <=> /\ r.total_score * 100 >= 70 * r.max_score
                                  /\ r.total_score * 100 < 80 * r.max_score
             /\ r.grade = "D" <=> /\ r.total_score * 100 >= 60 * r.max_score
                                  /\ r.total_score * 100 < 70 * r.max_score
             /\ r.grade = "F" <=> r.total_score * 100 < 60 * r.max_score
        ELSE r.percentage = 0 /\ r.grade = "F"

\* a Result of 1808 points out of 2009 (89.995...%) is stored with percentage
\* 90.0 and grade B
C6_Witness ==
  /\ Len(quiz_results) = 1
  /\ quiz_results[1].total_score = 1808
  /\ quiz_results[1].max_score = 2009
  /\ quiz_results[1].percentage = 9000
  /\ quiz_results[1].grade = "B"

SubmitOps == {"submit_quiz", "submit_quiz_attempt"}

\* C7: results are append-only and submit is not idempotent: every
\* successful submit inserts exactly one new Result, whose id differs from
\* that of every existing Result, and leaves the existing Results unchanged;
\* no operation updates or deletes a Result.
C7_AppendOnly ==
  [][ /\ Len(quiz_results') >= Len(quiz_results)
      /\ Len(quiz_results') <= Len(quiz_results) + 1
      /\ SubSeq(quiz_results', 1, Len(quiz_results)) = quiz_results
      /\ (response'.op \in SubmitOps /\ response'.code \in {200, 201}) =>
            /\ Len(quiz_results') = Len(quiz_results) + 1
            /\ response'.result.id = Len(quiz_results')
            /\ response'.result.id \notin 1..Len(quiz_results)
      /\ Len(quiz_results') > Len(quiz_results) =>
            (response'.op \in SubmitOps /\ response'.code \in {200, 201}) ]_vars

\* the same quiz, student and answers have been submitted twice, and two
\* Results with the same content are stored
C7_Witness ==
  /\ Len(quiz_results) = 2
  /\ quiz_results[1] = quiz_results[2]
  /\ quiz_results[1].question_results # <<>>
  /\ response.op = "submit_quiz" /\ response.code = 201 /\ response.result.id = 2

\* the attempts of (quiz_id, student_id) and those of them that are
\* unsubmitted and unexpired at time
AttemptsOf(attempts, quiz_id, student_id) ==
  {i \in 1..Len(attempts) :
     attempts[i].quiz_id = quiz_id /\ attempts[i].student_id = student_id}

Unexpired(attempts, quiz_id, student_id, time) ==
  {i \in AttemptsOf(attempts, quiz_id, student_id) :
     ~attempts[i].is_submitted /\ attempts[i].expires_at > time}

\* C8: a save_progress call for a (quiz, student) whose attempt is
\* unsubmitted and unexpired updates that one Attempt (the number of attempts
\* of the pair stays the same and that attempt's id is returned); a call made
\* when the pair has no unexpired attempt creates a new Attempt (the number
\* grows by one).
C8_SaveUpdatesOrCreates ==
  [][ \A data \in AttemptSaveInputs :
        (save_quiz_attempt(data) /\ response'.code # 400) =>
           LET before == AttemptsOf(quiz_attempts, data.quiz_id, data.student_id)
               after == AttemptsOf(quiz_attempts', data.quiz_id, data.student_id)
               live == Unexpired(quiz_attempts, data.quiz_id, data.student_id, now)
           IN IF live # {}
              THEN /\ Cardinality(live) = 1
                   /\ after = before
                   /\ Len(quiz_attempts') = Len(quiz_attempts)
                   /\ response'.code = 200
                   /\ response'.attempt_id \in live
                   /\ quiz_attempts'[response'.attempt_id].answers = data.answers
              ELSE /\ Cardinality(after) = Cardinality(before) + 1
                   /\ Len(quiz_attempts') = Len(quiz_attempts) + 1
                   /\ response'.code = 201
                   /\ response'.attempt_id = Len(quiz_attempts')
                   /\ response'.attempt_id \in after \ before ]_vars

\* an attempt was created, updated by a later save before its expiry, and,
\* after its expiry, a further save for the same pair created a second one
C8_Witness ==
  /\ Len(quiz_attempts) = 2
  /\ AttemptsOf(quiz_attempts, 1, "s1") = {1, 2}
  /\ quiz_attempts[1].updated_at > quiz_attempts[1].created_at
  /\ quiz_attempts[1].updated_at < quiz_attempts[1].expires_at
  /\ quiz_attempts[1].expires_at <= quiz_attempts[2].created_at
  /\ response.op = "save_quiz_attempt" /\ response.code = 201
  /\ response.attempt_id = 2

\* C9: in every reachable state, including those reached by interleaving
\* save_progress calls for the same (quiz, student), at most one unsubmitted,
\* unexpired Attempt exists per (quiz, student) pair.
C9_AtMostOneActive ==
  \A i \in 1..Len(quiz_attempts) :
     Cardinality(Unexpired(quiz_attempts, quiz_attempts[i].quiz_id,
                           quiz_attempts[i].student_id, now)) <= 1

\* the ways a resume request identifies the student of a save request: by
\* id, by email, by both; <<student_email, student_id>>
IdentifiedAs(data) ==
  {<<"", data.student_id>>, <<data.student_email, "">>,
   <<data.student_email, data.student_id>>}

\* a resume for data's quiz and student, issued when the save of data has
\* been served, finds an attempt that holds the progress of data
ResumeReturnsSave(data, ident) ==
  LET id == ResumeAttempt(quiz_attempts', data.quiz_id, ident[1], ident[2], now')
  IN /\ id # 0
     /\ quiz_attempts'[id].answers = data.answers
     /\ quiz_attempts'[id].current_question = Get(data, "current_question", 0)
     /\ quiz_attempts'[id].time_spent = Get(data, "time_spent", 0)

\* C10: after a successful save_progress and before that attempt expires,
\* get_active_attempt for the same quiz and student returns an attempt whose
\* answers, current index and time spent are those of the most recent save,
\* whether the student is identified by id, by email or by both; when no
\* unsubmitted unexpired attempt exists it answers 200 with no attempt and
\* changes nothing.
C10_ResumeReturnsLastSave ==
  [][ /\ \A data \in AttemptSaveInputs :
           (save_quiz_attempt(data) /\ response'.code # 400) =>
              \A ident \in IdentifiedAs(data) : ResumeReturnsSave(data, ident)
      /\ \A student_email \in StudentEmails \cup {""}, student_id \in StudentIds \cup {""} :
           ( /\ get_quiz_attempt(1, student_email, student_id)
             /\ student_email # "" \/ student_id # ""
             /\ ResumeAttempt(quiz_attempts, 1, student_email, student_id, now) = 0 ) =>
              /\ response' = [op |-> "get_quiz_attempt", code |-> 200, attempt |-> None]
              /\ UNCHANGED <<question_bank, quizzes, quiz_results, quiz_attempts>> ]_vars

\* the stored questions with the prompt and subject of data, for the tenant
SameQuestion(bank, data) ==
  {i \in 1..Len(bank) :
     /\ bank[i].question_text = Strip(data.question_text)
     /\ bank[i].subject = data.subject
     /\ bank[i].created_by = get_current_user_id}

\* C11: creating a question whose prompt and subject equal those of a
\* question already stored for the same tenant fails with a conflict, and
\* the store then still holds exactly one question with that prompt and
\* subject for that tenant.
C11_DuplicateQuestionConflict ==
  [][ \A data \in QuestionInputs :
        ( /\ add_to_question_bank(data)
          /\ validate_required_fields(data, BankRequired) = {}
          /\ SameQuestion(question_bank, data) # {} ) =>
           /\ response'.code = 409
           /\ question_bank' = question_bank
           /\ Cardinality(SameQuestion(question_bank', data)) = 1 ]_vars

\* a question sent with a leading blank in its prompt has been refused as the
\* duplicate of a stored one, with another subject's copy of the prompt
\* stored beside it
C11_Witness ==
  /\ response.op = "add_to_question_bank" /\ response.code = 409
  /\ Len(question_bank) = 2
  /\ question_bank[1].question_text = question_bank[2].question_text
  /\ question_bank[1].subject # question_bank[2].subject

C13_InlineQuestionsValidated ==
  \A i \in 1..Len(quizzes) : \A n \in 1..Len(quizzes[i].questions) :
     LET q == quizzes[i].questions[n]
     IN q.question_type = "multiple_choice" =>
          /\ Has(q, "options")
          /\ q.options # None
          /\ Len(TheValue(q.options)) >= 2

\* C14: the quiz status follows the two-state machine: every quiz that
\* create_quiz stores starts in status draft whatever the request contains,
\* every quiz's status is draft or published in every reachable state, and
\* a status changes only by publish (to published) and unpublish (to draft).
C14_StatusMachine ==
  /\ [](\A i \in 1..Len(quizzes) : quizzes[i].status \in {"draft", "published"})
  /\ [][ /\ Len(quizzes') > Len(quizzes) => quizzes'[Len(quizzes')].status = "draft"
          /\ \A i \in 1..Len(quizzes) :
                quizzes'[i].status # quizzes[i].status =>
                   \/ response'.op = "publish_quiz" /\ quizzes'[i].status = "published"
                   \/ response'.op = "unpublish_quiz" /\ quizzes'[i].status = "draft" ]_vars

\* C15: publish and unpublish are ownership-guarded: a request for a quiz
\* that does not exist, or from a teacher other than the one who created
\* the quiz, is answered 'not found' and leaves every quiz as it was.  The
\* handlers read nothing of the sender, so a step of theirs is the step the
\* request of any sender takes.
C15_OwnershipGuarded ==
  [][ \A quiz_id \in QuizIds : \A snd \in Senders :
        ( /\ publish_quiz(quiz_id) \/ unpublish_quiz(quiz_id)
          /\ \/ quiz_id \notin 1..Len(quizzes)
             \/ origin[quiz_id].teacher # snd.teacher ) =>
           /\ response'.code = 404
           /\ quizzes' = quizzes ]_vars

\* C16: tenant isolation of the student reads: the listing a student of a
\* school receives holds only quizzes created in that school, and fetching
\* a quiz created in another school is answered 'not found'.  The handlers
\* read nothing of the sender, so a step of theirs is the step the request
\* of any sender takes.
C16_TenantIsolation ==
  [][ \A snd \in Senders :
        /\ \A subject \in {"", "Math", "Art"} :
              get_student_quizzes(subject) =>
                 \A n \in 1..Len(response'.quizzes) :
                    origin[response'.quizzes[n].id].school = snd.school
        /\ \A quiz_id \in 1..Len(quizzes) :
              (get_student_quiz(quiz_id) /\ origin[quiz_id].school # snd.school) =>
                 response'.code = 404 ]_vars

\* the answers of a submission completed by a blank answer for every question
\* of the quiz, named by ids, that the submission does not answer
BlankFilled(answers, ids, count) ==
  LET RECURSIVE Fill(_)
      Fill(i) == IF i >= count THEN <<>>
                 ELSE (IF \E n \in 1..Len(answers) : answers[n].question_id = ids[i]
                       THEN <<>>
                       ELSE <<[question_id |-> ids[i], answer |-> <<>>]>>) \o Fill(i + 1)
  IN answers \o Fill(0)

Unanswered(answers, ids, count) ==
  {i \in 0..(count - 1) : \A n \in 1..Len(answers) : answers[n].question_id # ids[i]}

\* C17: a question for which the submission holds no answer is graded
\* exactly as if a blank answer had been submitted for it and is recorded
\* with an empty student answer; leaving questions unanswered never makes
\* the submission fail, and the Result has one entry per embedded question.
C17_AbsentAnswerIsBlank ==
  [][ /\ \A data \in GradeInputs(QuestionIds) :
            submit_quiz(data) =>
               LET count == Len(quizzes[1].questions)
                   filled == [data EXCEPT !.answers = BlankFilled(data.answers, QuestionIds, count)]
                   r == quiz_results'[Len(quiz_results')]
               IN /\ response'.code = 201
                  /\ Len(quiz_results') = Len(quiz_results) + 1
                  /\ Len(r.question_results) = count
                  /\ \A i \in Unanswered(data.answers, QuestionIds, count) :
                        r.question_results[i + 1].student_answer = <<>>
                  /\ r.question_results = ResultDoc(quizzes[1], filled, now).question_results
                  /\ r.total_score = ResultDoc(quizzes[1], filled, now).total_score
      /\ \A data \in GradeInputs(ClientQuestionIds(quizzes, 1)) :
            submit_quiz_attempt(data) =>
               LET count == Len(quizzes[1].questions)
                   ids == ClientQuestionIds(quizzes, 1)
                   filled == [data EXCEPT !.answers = BlankFilled(data.answers, ids, count)]
                   r == quiz_results'[Len(quiz_results')]
               IN /\ response'.code = 200
                  /\ Len(quiz_results') = Len(quiz_results) + 1
                  /\ Len(r.question_results) = count
                  /\ \A i \in Unanswered(data.answers, ids, count) :
                        r.question_results[i + 1].student_answer = <<>>
                  /\ r.question_results = AttemptResultDoc(quizzes[1], filled, now).question_results
                  /\ r.total_score = AttemptResultDoc(quizzes[1], filled, now).total_score ]_vars

\* the submission answers every question of the attempt view of the quiz,
\* under the id the view gives it, with the stored correct_answer
PerfectAnswers(answers, quiz, quiz_id) ==
  LET view == AttemptView(quiz, quiz_id)
  IN /\ Len(answers) = Len(view.questions)
     /\ \A n \in 1..Len(answers) :
           /\ answers[n].question_id = view.questions[n].id
           /\ Has(answers[n], "answer")
           /\ answers[n].answer = quiz.questions[n].correct_answer

\* C18: end to end, for a published quiz with max_score > 0, a submission
\* that gives for every question id of the attempt view exactly the stored
\* correct_answer has total_score = max_score, percentage 100 and grade A,
\* with every question marked correct.
C18_PerfectSubmission ==
  [][ \A data \in GradeInputs(QuestionIds) :
        ( /\ submit_quiz(data)
          /\ quizzes[1].total_points > 0
          /\ PerfectAnswers(data.answers, quizzes[1], 1) ) =>
           LET r == quiz_results'[Len(quiz_results')]
           IN /\ Len(quiz_results') = Len(quiz_results) + 1
              /\ r.total_score = r.max_score
              /\ r.percentage = 10000
              /\ r.grade = "A"
              /\ \A n \in 1..Len(r.question_results) : r.question_results[n].is_correct ]_vars

\* C19: in the teacher results query, for every combination of filters, the
\* analytics entry of a subject has total_students equal to the number of
\* distinct student_email values among the Results that match the query
\* and are of that subject, not the number of those Results.
C19_TotalStudentsDistinct ==
  [][ \A args \in ResultFilters :
        get_teacher_results(args) =>
           \A a \in response'.analytics :
              a.total_students =
                 Cardinality({quiz_results[i].student_email :
                                i \in {j \in FindResults(quiz_results, args) :
                                         quiz_results[j].quiz_subject = a.subject}}) ]_vars

\* C20: in every reachable state, those reached by overlapping create_quiz
\* requests included, no two quizzes of the same teacher and school have
\* the same title; a create_quiz whose title that teacher already uses is
\* answered with a conflict and stores nothing.
C20_UniqueTitles ==
  /\ [](\A i \in 1..Len(quizzes) : \A j \in 1..Len(quizzes) :
           (i # j /\ origin[i] = origin[j]) => quizzes[i].title # quizzes[j].title)
  /\ [][ \A n \in 1..Len(inflight) :
           ( /\ create_quiz_write(n)
             /\ validate_required_fields(inflight[n].data, QuizRequired) = {}
             /\ \E i \in 1..Len(quizzes) :
                   /\ origin[i] = Sender(inflight[n].data)
                   /\ quizzes[i].title = Strip(inflight[n].data.title) ) =>
              /\ response'.code = 409
              /\ quizzes' = quizzes ]_vars

\* the entries of the request refer only to questions that exist and were
\* added from the school of the sender
RefsOfOwnTenant(data) ==
  \A n \in 1..Len(data.questions) :
     Has(data.questions[n], "question_bank_id") =>
        /\ data.questions[n].question_bank_id \in 1..Len(question_bank)
        /\ bank_origin[data.questions[n].question_bank_id].school = Sender(data).school

\* C21: create_quiz is all-or-nothing over its question references: when a
\* question_bank_id of the request identifies no existing question of the
\* school of the caller, the creation fails and stores no quiz; otherwise a
\* stored quiz has exactly one embedded question per entry of the request.
C21_ReferencesAllOrNothing ==
  [][ \A data \in RefQuizInputs :
        create_quiz(data) =>
           IF RefsOfOwnTenant(data)
           THEN Len(quizzes') > Len(quizzes) =>
                   Len(quizzes'[Len(quizzes')].questions) = Len(data.questions)
           ELSE response'.code # 201 /\ quizzes' = quizzes ]_vars

FetchOps == {"get_quiz_for_attempt", "student_get_quiz_for_attempt"}

\* the ids of the questions of a fetched quiz, in the order of the response
IdsOf(view) == [n \in 1..Len(view.questions) |-> view.questions[n].id]

\* the answer the submission gives under the question id, when it gives one
\* and only one
AnswerUnder(answers, question_id) ==
  LET S == {n \in 1..Len(answers) : answers[n].question_id = question_id}
  IN IF Cardinality(S) = 1 /\ \A n \in S : Has(answers[n], "answer")
     THEN Some(answers[CHOOSE n \in S : TRUE].answer) ELSE None

GradingOf(result) ==
  [total_score |-> result.total_score,
   percentage |-> result.percentage,
   grade |-> result.grade,
   is_correct |-> [n \in 1..Len(result.question_results) |->
                     result.question_results[n].is_correct]]

FixedFields(attempt) ==
  [quiz_id |-> attempt.quiz_id,
   student_id |-> attempt.student_id,
   student_email |-> attempt.student_email,
   is_submitted |-> attempt.is_submitted,
   created_at |-> attempt.created_at,
   expires_at |-> attempt.expires_at]

\* C24: a save_progress that updates an existing attempt changes only that
\* attempt's answers, current index, time spent and update timestamp: its
\* expiry, creation time, quiz id, student identity and submitted flag are
\* unchanged and no other attempt is touched, so every attempt expires 24
\* hours after its creation however many saves follow.
C24_UpdateKeepsExpiry ==
  /\ [](\A i \in 1..Len(quiz_attempts) :
           quiz_attempts[i].expires_at = quiz_attempts[i].created_at + 24)
  /\ [][ \A data \in AttemptSaveInputs :
           (save_quiz_attempt(data) /\ response'.code = 200) =>
              /\ Len(quiz_attempts') = Len(quiz_attempts)
              /\ \A i \in 1..Len(quiz_attempts) :
                    IF i = response'.attempt_id
                    THEN /\ FixedFields(quiz_attempts'[i]) = FixedFields(quiz_attempts[i])
                         /\ quiz_attempts'[i].answers = data.answers
                         /\ quiz_attempts'[i].updated_at = now
                    ELSE quiz_attempts'[i] = quiz_attempts[i] ]_vars

\* an attempt was updated by a save served 12 hours or more after its
\* creation
C24_Witness ==
  /\ response.op = "save_quiz_attempt"
  /\ response.code = 200
  /\ quiz_attempts[response.attempt_id].updated_at
       >= quiz_attempts[response.attempt_id].created_at + 12
  /\ quiz_attempts[response.attempt_id].answers # <<>>

\* C25: once a Result exists for a (quiz, student) pair, the attempt saved
\* for the pair before the submission is no longer active: a
\* get_active_attempt for the pair served right after the submission, when
\* every stored attempt is one saved before it, answers 'no active attempt'.
C25_ResultEndsAttempt ==
  [][ \A student_email \in {"e1"}, student_id \in {"s1"} :
        ( /\ get_quiz_attempt(1, student_email, student_id)
          /\ response.op = "submit_quiz"
          /\ response.code = 201
          /\ response.result.quiz_id = 1
          /\ response.result.student_id = student_id
          /\ response.result.student_email = student_email ) =>
           /\ response'.code = 200
           /\ response'.attempt = None ]_vars

\* C26: for the student-facing fetch, a quiz that exists but is not
\* published gets an outcome that can be told from the outcome of an id no
\* quiz has: the step that answers the fetch of the unpublished quiz is not
\* a step that answers the fetch of a missing id.
C26_UnavailableDistinct ==
  [][ \A quiz_id \in 1..Len(quizzes) : \A missing \in QuizIds \ (1..Len(quizzes)) :
        quizzes[quiz_id].status # "published" =>
           /\ get_student_quiz(quiz_id) => ~get_student_quiz(missing)
           /\ student_get_quiz_for_attempt(quiz_id) =>
                 ~student_get_quiz_for_attempt(missing) ]_vars

WriteOps ==
  {"add_to_question_bank", "create_quiz", "save_quiz_attempt", "submit_quiz",
   "submit_quiz_attempt"}

\* C27: no partial writes: whenever add_question, create_quiz, save_progress
\* or submit answers with an error (validation, conflict, not found or
\* unavailable, internal failure), the stored questions, quizzes, attempts
\* and results are exactly what they were before the call.
C27_NoPartialWrites ==
  [][ (response'.op \in WriteOps /\ response'.code >= 400) =>
         UNCHANGED <<question_bank, quizzes, quiz_attempts, quiz_results>> ]_vars

\* create_quiz has answered a request with an unknown question reference
\* with an error, the bank holding a question
C27_Witness ==
  /\ response.op = "create_quiz"
  /\ response.code = 400
  /\ question_bank # <<>>
  /\ quizzes = <<>>

\* C28: every question accepted by add_question and every embedded question
\* of a quiz accepted by create_quiz has a point value that is a positive
\* integer; a request carrying zero or negative points is rejected.
C28_PositivePoints ==
  /\ [](\A i \in 1..Len(question_bank) : question_bank[i].points >= 1)
  /\ [](\A i \in 1..Len(quizzes) : \A n \in 1..Len(quizzes[i].questions) :
           quizzes[i].questions[n].points >= 1)
  /\ [][ /\ \A data \in PointBankInputs :
              (add_to_question_bank(data) /\ data.points < 1) =>
                 response'.code >= 400 /\ question_bank' = question_bank
         /\ \A data \in PointQuizInputs :
              ( /\ create_quiz(data)
                /\ \E n \in 1..Len(data.questions) :
                      Has(data.questions[n], "points") /\ data.questions[n].points < 1 ) =>
                 response'.code >= 400 /\ quizzes' = quizzes ]_vars

(***************************************************************************)
(* Overlapping saves of one student on one quiz: each request is the        *)
(* find_one, then, after any steps of other requests, the update_one or     *)
(* insert_one.  A request that finds an attempt will update it; only the    *)
(* requests that find none add to the collection, and those are kept        *)
(* within MaxAttempts.                                                      *)
(***************************************************************************)
OverlapSaveInputs ==
  {[quiz_id |-> 1, student_id |-> "s1", student_email |-> "e1"] @@ p :
      p \in ProgressInputs}

OverlapFind ==
  /\ Len(inflight) < MaxInflight
  /\ \E data \in OverlapSaveInputs :
        /\ \/ ExistingAttempt(quiz_attempts, data, now) # 0
           \/ Len(quiz_attempts)
                + Cardinality({n \in 1..Len(inflight) : inflight[n].existing = 0})
                < MaxAttempts
        /\ save_quiz_attempt_find(data)

OverlapCommit == \E n \in 1..Len(inflight) : save_quiz_attempt_write(n)

NextOverlap == OverlapFind \/ OverlapCommit \/ Tick

SpecOverlap == Init /\ [][NextOverlap]_vars

\* the progress a save request carries
ProgressOf(data) ==
  [answers |-> data.answers,
   current_question |-> Get(data, "current_question", 0),
   time_spent |-> Get(data, "time_spent", 0)]

\* the progress an attempt holds
ProgressIn(attempt) ==
  [answers |-> attempt.answers,
   current_question |-> attempt.current_question,
   time_spent |-> attempt.time_spent]

\* C29: when two save_progress calls for the same existing unexpired
\* attempt overlap, one update is dropped whole: the write of each call
\* adds no attempt, touches no other attempt, and leaves the attempt with
\* the answers, current index and time spent of that one call, so that
\* after both have written the three come from the call that wrote last,
\* never a mixture of the two.
C29_LastSaveWinsWhole ==
  [][ \A n \in 1..Len(inflight) :
        (save_quiz_attempt_write(n) /\ inflight[n].existing # 0) =>
           /\ Len(quiz_attempts') = Len(quiz_attempts)
           /\ response'.code = 200
           /\ \A i \in 1..Len(quiz_attempts) :
                 IF i = inflight[n].existing
                 THEN /\ ProgressIn(quiz_attempts'[i]) = ProgressOf(inflight[n].data)
                      /\ FixedFields(quiz_attempts'[i]) = FixedFields(quiz_attempts[i])
                 ELSE quiz_attempts'[i] = quiz_attempts[i] ]_vars

\* two overlapping calls found the same attempt; the first has written and
\* the attempt holds its progress, the second, carrying another progress in
\* every field, has yet to write
C29_Witness ==
  /\ Len(quiz_attempts) = 1
  /\ Len(inflight) = 1
  /\ inflight[1].existing = 1
  /\ response.op = "save_quiz_attempt"
  /\ response.code = 200
  /\ quiz_attempts[1].updated_at > quiz_attempts[1].created_at
  /\ ProgressIn(quiz_attempts[1]).answers # ProgressOf(inflight[1].data).answers
  /\ ProgressIn(quiz_attempts[1]).current_question # ProgressOf(inflight[1].data).current_question
  /\ ProgressIn(quiz_attempts[1]).time_spent # ProgressOf(inflight[1].data).time_spent

(***************************************************************************)
(* Results as the teacher and student routes of quiz.py produce them: bank  *)
(* questions and quizzes of two short_answer questions whose points the     *)
(* requests choose, publication, and submissions that answer either         *)
(* question, both or none.                                                  *)
(***************************************************************************)
ScorePoints == {-1, 1, 2}

ScoreBankInputs ==
  {[question_text |-> <<"a">>, question_type |-> "short_answer", subject |-> "Math",
    topic |-> <<"a">>, correct_answer |-> <<"a">>, points |-> p] : p \in ScorePoints}

ScoreQuestion(p) ==
  [question_text |-> <<"a">>, question_type |-> "short_answer",
   correct_answer |-> <<"a">>, points |-> p]

ScoreQuizInputs ==
  {[title |-> <<"a">>, subject |-> "Math",
    questions |-> <<ScoreQuestion(p1), ScoreQuestion(p2)>>] :
      p1 \in ScorePoints, p2 \in ScorePoints}
  \cup
  {[title |-> <<"a">>, subject |-> "Math",
    questions |-> <<ScoreQuestion(p), BankRefEntry(1)>>] : p \in ScorePoints}

ScoreAnswerLists ==
  { <<>>,
    <<[question_id |-> QuestionId(0), answer |-> <<"a">>]>>,
    <<[question_id |-> QuestionId(1), answer |-> <<"a">>]>>,
    <<[question_id |-> QuestionId(0), answer |-> <<"a">>],
      [question_id |-> QuestionId(1), answer |-> <<"a">>]>> }

ScoreSubmitInputs ==
  {[quiz_id |-> 1, student_id |-> sid, student_email |-> "e1", answers |-> as] :
      sid \in StudentIds, as \in ScoreAnswerLists}

ScoreAddQuestion ==
  /\ Len(question_bank) < MaxBankSize
  /\ \E data \in ScoreBankInputs : add_to_question_bank(data)

ScoreCreateQuiz ==
  /\ Len(quizzes) < MaxQuizzes
  /\ \E data \in ScoreQuizInputs : create_quiz(data)

ScorePublishQuiz == \E quiz_id \in 1..MaxQuizzes : publish_quiz(quiz_id)

ScoreSubmitQuiz ==
  /\ Len(quiz_results) < MaxResults
  /\ \E data \in ScoreSubmitInputs : submit_quiz(data)

NextScore == ScoreAddQuestion \/ ScoreCreateQuiz \/ ScorePublishQuiz \/ ScoreSubmitQuiz

SpecScore == Init /\ [][NextScore]_vars

\* the Result counts its questions as the quiz embeds them
ResultCountsHold(r) ==
  /\ 0 <= r.correct_answers
  /\ r.correct_answers <= r.total_questions
  /\ r.total_questions = Len(r.question_results)
  /\ r.quiz_id \in 1..Len(quizzes)
  /\ r.total_questions = Len(quizzes[r.quiz_id].questions)

\* the Result's score lies within the quiz's total
ResultScoreHolds(r) ==
  /\ 0 <= r.total_score
  /\ r.total_score <= r.max_score

\* the Result's percentage, in hundredths, lies within 0 and 100
ResultPercentageHolds(r) ==
  /\ 0 <= r.percentage
  /\ r.percentage <= 10000

\* C30: every Result reachable through add_question, create_quiz, publish
\* and submit has 0 <= total_score <= max_score, 0 <= correct_answers <=
\* total_questions, total_questions equal to the number of its per-question
\* entries and of the embedded questions of its quiz, and a percentage
\* between 0 and 100.
C30_ResultBounds ==
  \A i \in 1..Len(quiz_results) :
     /\ ResultScoreHolds(quiz_results[i])
     /\ ResultCountsHold(quiz_results[i])
     /\ ResultPercentageHolds(quiz_results[i])

====
